---- MODULE Spec2Model ----
(***************************************************************************)
(* The Stream Deck adapters of twitch-mod-streamdeck as a state machine:   *)
(*   StreamDeckPlugin and StreamDeckPropertyInspector (the library file)   *)
(*   and TwitchModPropertyInspector (pi/js/property-inspector.js).         *)
(* One adapter instance is modelled at a time; its class is chosen in Init *)
(* (adapter instances share no state: each owns its own socket).           *)
(*                                                                         *)
(* JavaScript values:                                                      *)
(*   - an object is a function whose domain is the set of its defined keys *)
(*     (JSON.stringify drops undefined-valued keys, so "key absent" and    *)
(*     "key undefined" are the same on the wire);                          *)
(*   - null for a string-valued field is the string "null";                *)
(*   - a DOM string (a form value) is a sequence of one-character strings. *)
(***************************************************************************)
EXTENDS Integers, Sequences, FiniteSets, TLC

Null == "null"
EmptyObj == [k \in {} |-> 0]

Has(obj, k) == k \in DOMAIN obj
Restrict(obj, keys) == [k \in (DOMAIN obj) \cap keys |-> obj[k]]

(***************************************************************************)
(* Bounds of the model.                                                    *)
(***************************************************************************)
\* envelopes a connection logs, beyond those onopen sends, before the callers
\* stop sending (library classes / TwitchModPropertyInspector)
MaxSentLibrary == 1
MaxSentTM == 2
\* setTimeout callbacks pending at once
MaxTimers == 2

(***************************************************************************)
(* Names fixed by the source.                                              *)
(***************************************************************************)
StreamDeckPlugin == "StreamDeckPlugin"
StreamDeckPropertyInspector == "StreamDeckPropertyInspector"
TwitchModPropertyInspector == "TwitchModPropertyInspector"
Classes == {StreamDeckPlugin, StreamDeckPropertyInspector, TwitchModPropertyInspector}
LibraryClasses == {StreamDeckPlugin, StreamDeckPropertyInspector}

\* WebSocket.readyState
CONNECTING == "CONNECTING"
OPEN == "OPEN"
CLOSING == "CLOSING"
CLOSED == "CLOSED"

EventsReceived ==
    { "didReceiveSettings", "didReceiveGlobalSettings", "keyDown", "keyUp",
      "willAppear", "willDisappear", "titleParametersDidChange",
      "deviceDidConnect", "deviceDidDisconnect", "applicationDidLaunch",
      "applicationDidTerminate", "systemDidWakeUp", "propertyInspectorDidAppear",
      "propertyInspectorDidDisappear", "sendToPlugin", "sendToPropertyInspector" }

EventsSent ==
    { "setSettings", "getSettings", "setGlobalSettings", "getGlobalSettings",
      "openUrl", "logMessage", "setTitle", "setImage", "setState", "showAlert",
      "showOk", "sendToPlugin", "sendToPropertyInspector" }

\* DestinationEnum.HARDWARE_AND_SOFTWARE, the default target of setTitle / setImage
HARDWARE_AND_SOFTWARE == 0

(***************************************************************************)
(* Inputs the host and the callers supply, drawn from small sets.          *)
(***************************************************************************)
UUIDs == {"uuid-A", "uuid-B"}
\* inRegisterEvent, as the host passes it to a plugin / to a property inspector
RegisterEventOf(c) ==
    IF c = "StreamDeckPlugin" THEN "registerPlugin" ELSE "registerPropertyInspector"
ActionIds == { "com.twitchmod.streamdeck.shieldmode",
               "com.twitchmod.streamdeck.followersonly",
               "com.twitchmod.streamdeck.slowmode",
               "com.twitchmod.streamdeck.automod" }
Contexts == {"ctx-1"}
Devices == {"dev-1"}

VARIABLES
    cls,                \* the class of the adapter instance
    websocket,          \* this.websocket: Null, or the socket's readyState
    uuid,               \* this.pluginUUID / this.uuid
    registerEventName,  \* this.registerEventName (inRegisterEvent in the closure)
    actionInfo,         \* this.actionInfo, by its one field read: action
    sockets,            \* number of WebSocket objects constructed
    sent,               \* the envelopes passed to websocket.send, in order
    hostGlobal,         \* the global settings the host holds for the plugin
    clock,              \* Date.now(), in ms
    limiter,            \* the closure createRateLimiter returned: maxRequests,
                        \* timeWindow, requests; made: it has been created
    retry,              \* the one call of retryWithBackoff: its arguments, i, where
                        \* it stands, and what fn did so far
    debounced,          \* the closure Utils.debounce returned: wait, timeout, and
                        \* the timers it armed
    throttled,          \* the closure Utils.throttle returned: limit, inThrottle,
                        \* and the timer it armed
    build,              \* the run of build.js: where it stands, the directories
                        \* and the icon files on disk
    step,               \* the last step taken: operation, frame, handler calls,
                        \* console output, error raised, value returned
    \* TwitchModPropertyInspector and its page
    settings,           \* this.settings
    globalSettings,     \* this.globalSettings
    dom,                \* ids of the elements the page holds
    form,               \* value of each input element of the page
    sections,           \* style.display of each .action-settings section
    testButton,         \* #testConnection: disabled, textContent
    connectionStatus,   \* #connectionStatus: textContent, className
    saveButton,         \* #saveButton: textContent, classList has 'saved'
    errorContainer,     \* #errorContainer: the errors rendered, style.display
    timers,             \* pending setTimeout callbacks, in arming order
    ready               \* onDocumentReady has run (listeners attached)

connVars == <<cls, websocket, uuid, registerEventName, actionInfo, sockets, sent>>
mirrorVars == <<settings, globalSettings>>
pageVars ==
    <<dom, form, sections, testButton, connectionStatus, saveButton, errorContainer,
      timers, ready>>
tmVars == <<mirrorVars, pageVars>>
utilsVars == <<clock, limiter, retry, debounced, throttled, build>>
vars == <<connVars, hostGlobal, utilsVars, step, tmVars>>

\* a step's record
Step(op, frame, calls, logs, error) ==
    [op |-> op, frame |-> frame, calls |-> calls, logs |-> logs, error |-> error,
     returned |-> << >>]

\* a step of a method that returns a value to its caller
StepReturning(op, frame, value) ==
    [Step(op, frame, << >>, << >>, "none") EXCEPT !.returned = << value >>]

NoError == "none"
TypeError == "TypeError"

Call(handler, args) == [handler |-> handler, args |-> args]

(***************************************************************************)
(* send(json): passes the envelope to the socket only when it is OPEN.     *)
(***************************************************************************)
Send(ws, log, json) ==
    IF ws # Null /\ ws = OPEN THEN Append(log, json) ELSE log

\* register(): {event: registerEventName, uuid: uuid}
RegisterEnvelope == [event |-> registerEventName, uuid |-> uuid]


(***************************************************************************)
(* Inbound frames: JSON objects the host sends.  event, context and        *)
(* payload may each be missing; the event may be one no adapter knows.     *)
(***************************************************************************)
UnknownEvents == {"bogusEvent"}
HostSettings == { EmptyObj, [shieldDuration |-> 300], [slowDelay |-> 0, followDuration |-> 10] }
HostGlobalSettings ==
    { EmptyObj, [twitchToken |-> <<"t","k">>], [twitchChannel |-> <<"a","b","c","d">>, twitchToken |-> << >>] }
PluginPayloads == { [settings |-> [shieldDuration |-> 300]] }

Frame(eventOpt, contextOpt, payloadOpt) ==
       (IF Len(eventOpt) = 0 THEN EmptyObj ELSE [event |-> eventOpt[1]])
    @@ (IF Len(contextOpt) = 0 THEN EmptyObj ELSE [context |-> contextOpt[1]])
    @@ (IF Len(payloadOpt) = 0 THEN EmptyObj ELSE [payload |-> payloadOpt[1]])

Opt(S) == {<< >>} \cup { <<x>> : x \in S }

LibraryFrames ==
    { Frame(e, c, p) : e \in Opt(EventsReceived \cup UnknownEvents),
                       c \in Opt(Contexts), p \in Opt(PluginPayloads) }

\* const payload = data.payload || {}
PayloadOf(data) == IF Has(data, "payload") THEN data["payload"] ELSE EmptyObj

(***************************************************************************)
(* StreamDeckPlugin.handleMessage: the handler calls one frame causes.     *)
(***************************************************************************)
Plugin_switch(data) ==
    LET event == IF Has(data, "event") THEN data["event"] ELSE "undefined"
        payload == PayloadOf(data)
        ctx == Restrict(data, {"context"})
        cad == Restrict(data, {"context", "action", "device"})
        dev == Restrict(data, {"device"})
        key == ctx @@ Restrict(payload, {"settings", "coordinates", "userDesiredState",
                                         "state", "isInMultiAction"})
        appear == cad @@ Restrict(payload, {"settings", "coordinates", "isInMultiAction"})
    IN  CASE event = "didReceiveSettings" ->
               << Call("onSettings", ctx @@ Restrict(payload, {"settings", "coordinates",
                                                              "isInMultiAction"})) >>
          [] event = "didReceiveGlobalSettings" ->
               << Call("onGlobalSettings", Restrict(payload, {"settings"})) >>
          [] event = "keyDown" -> << Call("onKeyDown", key) >>
          [] event = "keyUp" -> << Call("onKeyUp", key) >>
          [] event = "willAppear" -> << Call("onWillAppear", appear) >>
          [] event = "willDisappear" -> << Call("onWillDisappear", appear) >>
          [] event = "titleParametersDidChange" ->
               << Call("onTitleParametersDidChange",
                       ctx @@ Restrict(payload, {"title", "titleParameters", "state"})) >>
          [] event = "deviceDidConnect" ->
               << Call("onDeviceDidConnect", Restrict(data, {"device", "deviceInfo"})) >>
          [] event = "deviceDidDisconnect" -> << Call("onDeviceDidDisconnect", dev) >>
          [] event = "applicationDidLaunch" ->
               << Call("onApplicationDidLaunch", Restrict(payload, {"application"})) >>
          [] event = "applicationDidTerminate" ->
               << Call("onApplicationDidTerminate", Restrict(payload, {"application"})) >>
          [] event = "systemDidWakeUp" -> << Call("onSystemDidWakeUp", EmptyObj) >>
          [] event = "propertyInspectorDidAppear" ->
               << Call("onPropertyInspectorDidAppear", cad) >>
          [] event = "propertyInspectorDidDisappear" ->
               << Call("onPropertyInspectorDidDisappear", cad) >>
          [] event = "sendToPlugin" ->
               << Call("onSendToPlugin", cad @@ [payload |-> payload]) >>
          [] OTHER -> << >>

\* a case that lacks its break: keyDown falls through into keyUp
Plugin_handleMessage_fallthrough(data) ==
    IF Has(data, "event") /\ data["event"] = "keyDown"
    THEN Plugin_switch(data) \o Plugin_switch([data EXCEPT !["event"] = "keyUp"])
    ELSE Plugin_switch(data)
\* a default: branch that reports the event
Plugin_handleMessage_default(data) ==
    IF Len(Plugin_switch(data)) = 0
    THEN << Call("onError", Restrict(data, {"event"})) >>
    ELSE Plugin_switch(data)
Plugin_handleMessage(data) == Plugin_switch(data)

(***************************************************************************)
(* StreamDeckPropertyInspector.handleMessage                               *)
(***************************************************************************)
PI_switch(data) ==
    LET event == IF Has(data, "event") THEN data["event"] ELSE "undefined"
        payload == PayloadOf(data)
    IN  CASE event = "sendToPropertyInspector" ->
               << Call("onSendToPropertyInspector", [payload |-> payload]) >>
          [] OTHER -> << >>

\* the settings events routed to the one handler as well
PI_handleMessage_settings(data) ==
    IF Has(data, "event") /\ data["event"] \in {"didReceiveSettings", "didReceiveGlobalSettings"}
    THEN << Call("onSendToPropertyInspector", [payload |-> PayloadOf(data)]) >>
    ELSE PI_switch(data)
PI_handleMessage(data) == PI_switch(data)

(***************************************************************************)
(* DOM strings and the JavaScript string functions the inspector uses.     *)
(***************************************************************************)
Lower == {"a","b","c","d","e","f","g","h","i","j","k","l","m",
          "n","o","p","q","r","s","t","u","v","w","x","y","z"}
Upper == {"A","B","C","D","E","F","G","H","I","J","K","L","M",
          "N","O","P","Q","R","S","T","U","V","W","X","Y","Z"}
Digit == {"0","1","2","3","4","5","6","7","8","9"}
\* the class [a-zA-Z0-9_] of the username regex
WordChar == Lower \cup Upper \cup Digit \cup {"_"}
\* white space that String.prototype.trim and parseInt skip
WhiteSpace == {" ", "\t", "\n"}

DigitValue(c) ==
    CASE c = "0" -> 0 [] c = "1" -> 1 [] c = "2" -> 2 [] c = "3" -> 3 [] c = "4" -> 4
      [] c = "5" -> 5 [] c = "6" -> 6 [] c = "7" -> 7 [] c = "8" -> 8 [] c = "9" -> 9
      [] c \in {"a", "A"} -> 10 [] c \in {"b", "B"} -> 11 [] c \in {"c", "C"} -> 12
      [] c \in {"d", "D"} -> 13 [] c \in {"e", "E"} -> 14 [] c \in {"f", "F"} -> 15
      [] OTHER -> 99

DigitChar(d) ==
    CASE d = 0 -> "0" [] d = 1 -> "1" [] d = 2 -> "2" [] d = 3 -> "3" [] d = 4 -> "4"
      [] d = 5 -> "5" [] d = 6 -> "6" [] d = 7 -> "7" [] d = 8 -> "8" [] OTHER -> "9"

\* the number of leading / trailing white-space characters of s
LeadingWS(s) ==
    IF \A i \in 1..Len(s) : s[i] \in WhiteSpace THEN Len(s)
    ELSE (CHOOSE i \in 1..Len(s) :
              s[i] \notin WhiteSpace /\ \A j \in 1..(i-1) : s[j] \in WhiteSpace) - 1

TrailingWS(s) ==
    IF \A i \in 1..Len(s) : s[i] \in WhiteSpace THEN Len(s)
    ELSE Len(s) - (CHOOSE i \in 1..Len(s) :
              s[i] \notin WhiteSpace /\ \A j \in (i+1)..Len(s) : s[j] \in WhiteSpace)

\* String.prototype.trim
TrimStartOnly(s) == SubSeq(s, LeadingWS(s) + 1, Len(s))
Trim(s) ==
    IF LeadingWS(s) = Len(s) THEN << >>
    ELSE SubSeq(s, LeadingWS(s) + 1, Len(s) - TrailingWS(s))

\* s.replace('@', ''): a string pattern replaces the first occurrence only
RemoveFirstAt(s) ==
    IF \A i \in 1..Len(s) : s[i] # "@" THEN s
    ELSE LET i == CHOOSE k \in 1..Len(s) : s[k] = "@" /\ \A j \in 1..(k-1) : s[j] # "@"
         IN  SubSeq(s, 1, i - 1) \o SubSeq(s, i + 1, Len(s))

\* Number-to-string conversion of an integer (element.value = number)
RECURSIVE NatToString(_)
NatToString(n) ==
    IF n < 10 THEN << DigitChar(n) >>
    ELSE Append(NatToString(n \div 10), DigitChar(n % 10))

NumberToString(n) == IF n < 0 THEN << "-" >> \o NatToString(-n) ELSE NatToString(n)

(***************************************************************************)
(* parseInt(string), no radix given: skips leading white space, takes an   *)
(* optional sign, a 0x / 0X prefix selects radix 16, then the longest      *)
(* prefix of digits of the radix; NaN when that prefix is empty.           *)
(***************************************************************************)
NaN == [nan |-> TRUE, val |-> 0]
Num(n) == [nan |-> FALSE, val |-> n]

\* length of the longest prefix of s made of digits of the radix
DigitPrefix(s, radix) ==
    IF \A i \in 1..Len(s) : DigitValue(s[i]) < radix THEN Len(s)
    ELSE (CHOOSE i \in 1..Len(s) :
              DigitValue(s[i]) >= radix /\ \A j \in 1..(i-1) : DigitValue(s[j]) < radix) - 1

RECURSIVE DigitsValue(_, _)
DigitsValue(s, radix) ==
    IF Len(s) = 0 THEN 0
    ELSE DigitsValue(SubSeq(s, 1, Len(s) - 1), radix) * radix + DigitValue(s[Len(s)])

ParseInt(str) ==
    LET s1 == TrimStartOnly(str)
        neg == Len(s1) > 0 /\ s1[1] = "-"
        s2 == IF Len(s1) > 0 /\ s1[1] \in {"-", "+"} THEN Tail(s1) ELSE s1
        hex == Len(s2) >= 2 /\ s2[1] = "0" /\ s2[2] \in {"x", "X"}
        radix == IF hex THEN 16 ELSE 10
        s3 == IF hex THEN SubSeq(s2, 3, Len(s2)) ELSE s2
        n == DigitPrefix(s3, radix)
        v == DigitsValue(SubSeq(s3, 1, n), radix)
    IN  IF n = 0 THEN NaN ELSE Num(IF neg THEN -v ELSE v)

\* parseInt(value) || dflt: NaN and 0 are falsy
ParseOr(str, dflt) ==
    IF ParseInt(str).nan \/ ParseInt(str).val = 0 THEN dflt ELSE ParseInt(str).val

\* /^[a-zA-Z0-9_]{4,25}$/.test(s)
UsernameMinLen == 4
UsernameMaxLen == 25
UsernameRegex(s) ==
    /\ Len(s) >= UsernameMinLen
    /\ Len(s) <= UsernameMaxLen
    /\ \A i \in 1..Len(s) : s[i] \in WordChar

\* /^\d+$/.test(s)
NumericRegex(s) == Len(s) >= 1 /\ \A i \in 1..Len(s) : s[i] \in Digit

\* validateTwitchUsername(username)
ValidateTwitchUsername(username) == UsernameRegex(Trim(RemoveFirstAt(username)))



(***************************************************************************)
(* Connection life cycle, common to the three classes.                     *)
(***************************************************************************)
IsOpen == websocket # Null /\ websocket = OPEN

\* the log bound: a step that sends k envelopes is taken only while the log,
\* past what onopen sent, has room for MaxSent steps of its size, so that every
\* kind of step can be taken MaxSent times in a row
CanSend(k) ==
    \/ ~IsOpen
    \/ Len(sent) + k <= (IF cls = TwitchModPropertyInspector THEN 3 + k * MaxSentTM
                         ELSE 1 + k * MaxSentLibrary)

ConsoleError == "WebSocket error:"
ConsoleClosed ==
    IF cls = TwitchModPropertyInspector THEN "WebSocket connection closed"
    ELSE "WebSocket closed"

\* getSettings / getGlobalSettings of the property inspectors, scoped to this.uuid
GetSettingsEnvelope == [event |-> "getSettings", context |-> uuid]
GetGlobalSettingsEnvelope == [event |-> "getGlobalSettings", context |-> uuid]

(* connect(inPort, inUUID, inRegisterEvent, inInfo, inActionInfo): the host   *)
(* calls it once, when it loads the page.  A plugin gets no inActionInfo.     *)
Connect(inUUID, inRegisterEvent, inAction) ==
    /\ websocket = Null
    /\ inAction = Null <=> cls = StreamDeckPlugin
    /\ uuid' = inUUID
    /\ registerEventName' = inRegisterEvent
    /\ actionInfo' = inAction
    /\ websocket' = CONNECTING
    /\ sockets' = sockets + 1
    /\ step' = Step("connect", EmptyObj, << >>, << >>, NoError)
    /\ UNCHANGED <<utilsVars, hostGlobal, cls, sent, tmVars>>

\* what onopen sends, the socket being OPEN
OnOpenSent_requesting ==
    Send(OPEN, Send(OPEN, Send(OPEN, sent, RegisterEnvelope),
                    GetGlobalSettingsEnvelope), GetSettingsEnvelope)
OnOpenSent_twice ==
    IF cls = TwitchModPropertyInspector
    THEN Send(OPEN, Send(OPEN, Append(sent, RegisterEnvelope), GetGlobalSettingsEnvelope),
              GetSettingsEnvelope)
    ELSE Send(OPEN, Send(OPEN, sent, RegisterEnvelope), RegisterEnvelope)
OnOpenSent ==
    IF cls = TwitchModPropertyInspector
    THEN \* websocket.send(register); requestGlobalSettings(); requestSettings()
         Send(OPEN, Send(OPEN, Append(sent, RegisterEnvelope), GetGlobalSettingsEnvelope),
              GetSettingsEnvelope)
    ELSE \* register(); onConnected()
         Send(OPEN, sent, RegisterEnvelope)

\* the socket's open event: readyState becomes OPEN and onopen runs
SocketOpen ==
    /\ websocket = CONNECTING
    /\ websocket' = OPEN
    /\ sent' = OnOpenSent
    /\ step' = Step("onopen", EmptyObj,
                    IF cls \in LibraryClasses THEN << Call("onConnected", EmptyObj) >> ELSE << >>,
                    << >>, NoError)
    /\ UNCHANGED <<utilsVars, hostGlobal, cls, uuid, registerEventName, actionInfo,
                   sockets, tmVars>>

\* the host starts the closing handshake: no event is fired yet
SocketClosing ==
    /\ websocket = OPEN
    /\ websocket' = CLOSING
    /\ step' = Step("closing", EmptyObj, << >>, << >>, NoError)
    /\ UNCHANGED <<utilsVars, hostGlobal, cls, uuid, registerEventName, actionInfo,
                   sockets, sent, tmVars>>

\* the calls and console lines of onerror / onclose
OnErrorCalls ==
    IF cls \in LibraryClasses THEN << Call("onError", EmptyObj) >> ELSE << >>
OnCloseCalls ==
    IF cls \in LibraryClasses THEN << Call("onDisconnected", EmptyObj) >> ELSE << >>

\* what a handler of the close event constructs: nothing (no reconnect)
SocketsAfterClose_reconnect == sockets + 1
SocketsAfterClose == sockets

\* the connection is closed cleanly: readyState CLOSED, then the close event
SocketClose ==
    /\ websocket \in {OPEN, CLOSING}
    /\ websocket' = CLOSED
    /\ sockets' = SocketsAfterClose
    /\ step' = Step("onclose", EmptyObj, OnCloseCalls, << ConsoleClosed >>, NoError)
    /\ UNCHANGED <<utilsVars, hostGlobal, cls, uuid, registerEventName, actionInfo, sent,
                   tmVars>>

\* the connection fails: readyState CLOSED, the error event, then the close event
SocketFail ==
    /\ websocket \in {CONNECTING, OPEN, CLOSING}
    /\ websocket' = CLOSED
    /\ sockets' = SocketsAfterClose
    /\ step' = Step("onerror+onclose", EmptyObj, OnErrorCalls \o OnCloseCalls,
                    << ConsoleError, ConsoleClosed >>, NoError)
    /\ UNCHANGED <<utilsVars, hostGlobal, cls, uuid, registerEventName, actionInfo, sent,
                   tmVars>>

(***************************************************************************)
(* The outbound helpers of the two library classes.  A helper call is a    *)
(* step of the code that uses the adapter; it may come in any state.       *)
(***************************************************************************)
\* the host keeps one mapping of global settings for the plugin and replaces it
\* by the payload of each setGlobalSettings envelope it receives
HostReceives(store, added) ==
    LET saves == { i \in 1..Len(added) : added[i].event = "setGlobalSettings" }
    IN  IF saves = {} THEN store
        ELSE added[CHOOSE i \in saves : \A j \in saves : j <= i].payload

\* the envelopes a step adds to the log
SentBy(log, log2) == SubSeq(log2, Len(log) + 1, Len(log2))

\* an argument the caller left out
Undefined == "undefined"

\* JSON.stringify leaves out a key whose value is undefined
Stringified(json) ==
    IF Has(json, "context") /\ json["context"] = Undefined
    THEN Restrict(json, DOMAIN json \ {"context"})
    ELSE json

Helper(op, json) ==
    /\ CanSend(1)
    /\ sent' = Send(websocket, sent, Stringified(json))
    /\ step' = Step(op, EmptyObj, << >>, << >>, NoError)
    /\ hostGlobal' = HostReceives(hostGlobal, SentBy(sent, sent'))
    /\ UNCHANGED <<utilsVars, cls, websocket, uuid, registerEventName, actionInfo,
                   sockets, tmVars>>

\* the helper raises before it reaches send
HelperThrows(op) ==
    /\ step' = Step(op, EmptyObj, << >>, << >>, TypeError)
    /\ UNCHANGED <<utilsVars, hostGlobal, connVars, tmVars>>

CallerSettings == {[shieldDuration |-> 300]}
CallerUrls == {"https://twitchapps.com/tmi/"}
CallerTitles == {"ON"}
CallerStates == {Null, "0"}
CallerPayloads == {[action |-> "testConnection"]}

\* payload of setTitle / setImage: state is set only when given
TitlePayload(key, value, state) ==
    (key :> value) @@ [target |-> HARDWARE_AND_SOFTWARE]
        @@ (IF state # Null THEN [state |-> state] ELSE EmptyObj)

Plugin_setSettings(context, s) ==
    /\ cls = StreamDeckPlugin
    /\ Helper("setSettings", [event |-> "setSettings", context |-> context, payload |-> s])

Plugin_getSettings(context) ==
    /\ cls = StreamDeckPlugin
    /\ Helper("getSettings", [event |-> "getSettings", context |-> context])

Plugin_setGlobalSettings(s) ==
    /\ cls = StreamDeckPlugin
    /\ Helper("setGlobalSettings",
              [event |-> "setGlobalSettings", context |-> uuid, payload |-> s])

Plugin_getGlobalSettings ==
    /\ cls = StreamDeckPlugin
    /\ Helper("getGlobalSettings", [event |-> "getGlobalSettings", context |-> uuid])

Plugin_openUrl(url) ==
    /\ cls = StreamDeckPlugin
    /\ Helper("openUrl", [event |-> "openUrl", payload |-> [url |-> url]])

Plugin_logMessage(message) ==
    /\ cls = StreamDeckPlugin
    /\ Helper("logMessage", [event |-> "logMessage", payload |-> [message |-> message]])

Plugin_setTitle(context, title, state) ==
    /\ cls = StreamDeckPlugin
    /\ Helper("setTitle", [event |-> "setTitle", context |-> context,
                           payload |-> TitlePayload("title", title, state)])

Plugin_setImage(context, image, state) ==
    /\ cls = StreamDeckPlugin
    /\ Helper("setImage", [event |-> "setImage", context |-> context,
                           payload |-> TitlePayload("image", image, state)])

Plugin_setState(context, state) ==
    /\ cls = StreamDeckPlugin
    /\ Helper("setState", [event |-> "setState", context |-> context,
                           payload |-> [state |-> state]])

Plugin_showAlert(context) ==
    /\ cls = StreamDeckPlugin
    /\ Helper("showAlert", [event |-> "showAlert", context |-> context])

Plugin_showOk(context) ==
    /\ cls = StreamDeckPlugin
    /\ Helper("showOk", [event |-> "showOk", context |-> context])

Plugin_sendToPropertyInspector(context, payload, action) ==
    /\ cls = StreamDeckPlugin
    /\ Helper("sendToPropertyInspector",
              [event |-> "sendToPropertyInspector", context |-> context,
               payload |-> payload, action |-> action])

\* sendToPlugin reads this.actionInfo.action while it builds the envelope,
\* before send is reached: a TypeError while this.actionInfo is null
PI_sendToPlugin(payload) ==
    /\ cls = StreamDeckPropertyInspector
    /\ IF actionInfo = Null
       THEN HelperThrows("sendToPlugin")
       ELSE Helper("sendToPlugin", [event |-> "sendToPlugin", action |-> actionInfo,
                                    context |-> uuid, payload |-> payload])

PI_setSettings(s) ==
    /\ cls = StreamDeckPropertyInspector
    /\ Helper("setSettings", [event |-> "setSettings", context |-> uuid, payload |-> s])

PI_getSettings ==
    /\ cls = StreamDeckPropertyInspector
    /\ Helper("getSettings", GetSettingsEnvelope)

PI_setGlobalSettings(s) ==
    /\ cls = StreamDeckPropertyInspector
    /\ Helper("setGlobalSettings",
              [event |-> "setGlobalSettings", context |-> uuid, payload |-> s])

PI_getGlobalSettings ==
    /\ cls = StreamDeckPropertyInspector
    /\ Helper("getGlobalSettings", GetGlobalSettingsEnvelope)

PI_openUrl(url) ==
    /\ cls = StreamDeckPropertyInspector
    /\ Helper("openUrl", [event |-> "openUrl", payload |-> [url |-> url]])

(***************************************************************************)
(* onmessage of the library classes: JSON.parse, then handleMessage.  The  *)
(* handlers are the empty defaults, so the frame changes no field.         *)
(***************************************************************************)
Library_onmessage(data) ==
    /\ cls \in LibraryClasses
    /\ websocket = OPEN
    /\ step' = Step("onmessage", data,
                    IF cls = StreamDeckPlugin THEN Plugin_handleMessage(data)
                    ELSE PI_handleMessage(data),
                    << >>, NoError)
    /\ UNCHANGED <<utilsVars, hostGlobal, connVars, tmVars>>


(***************************************************************************)
(* TwitchModPropertyInspector: the page.                                   *)
(***************************************************************************)
GlobalInputs == {"twitchChannel", "twitchToken", "twitchBroadcasterId",
                 "twitchModeratorId", "twitchClientId"}
ActionInputs == {"shieldDuration", "followDuration", "slowDelay"}
InputIds == GlobalInputs \cup ActionInputs
SectionIds == {"shieldSettings", "followerSettings", "slowSettings"}
ButtonIds == {"saveButton", "getTokenButton", "getIdButton", "testConnection"}
ElementIds == InputIds \cup SectionIds \cup ButtonIds \cup {"connectionStatus", "errorContainer"}

\* the fallbacks of saveSettings
ShieldDurationDefault == 300
FollowDurationDefault == 10
SlowDelayDefault == 3
DefaultOf(id) ==
    CASE id = "shieldDuration" -> ShieldDurationDefault
      [] id = "followDuration" -> FollowDurationDefault
      [] id = "slowDelay" -> SlowDelayDefault

\* the delays of the two setTimeout calls, in ms
TestTimeoutMs == 10000
SaveConfirmMs == 2000

TokenUrl == "https://twitchapps.com/tmi/"
IdUrl == "https://www.streamweasels.com/tools/convert-twitch-username-to-user-id/"

IsTM == cls = TwitchModPropertyInspector

(***************************************************************************)
(* The objects saveSettings / saveGlobalSettings build from the form f.    *)
(***************************************************************************)
\* settings.<id> = parseInt(element.value) || default, for each element present
\* (a variant without the || default, to test the properties against)
FormSettings_noFallback(f) ==
    [id \in ActionInputs \cap dom |-> ParseInt(f[id]).val]
FormSettings(f) ==
    [id \in ActionInputs \cap dom |-> ParseOr(f[id], DefaultOf(id))]

\* twitchChannel: value.trim().replace('@', ''); the others: value.trim()
\* (a variant without the replace, to test the properties against)
StoredChannel_noStrip(value) == Trim(value)
StoredChannel(value) == RemoveFirstAt(Trim(value))

\* (a variant that stores the object built for the relay, to test the properties against)
FormGlobalSettings_tagged(f) ==
    [action |-> "saveGlobalSettings"] @@
    [id \in GlobalInputs \cap dom |->
        IF id = "twitchChannel" THEN StoredChannel(f[id]) ELSE Trim(f[id])]
FormGlobalSettings(f) ==
    [id \in GlobalInputs \cap dom |->
        IF id = "twitchChannel" THEN StoredChannel(f[id]) ELSE Trim(f[id])]

\* TwitchModPropertyInspector.sendToPlugin(payload): guarded by the socket state
TM_SendToPlugin(log, payload) ==
    Send(websocket, log, [event |-> "sendToPlugin", action |-> actionInfo,
                          context |-> uuid, payload |-> payload])

\* saveSettings(): what it sends
\* (a variant that sends the mapping stored before, to test the properties against)
SaveSettingsSent_stale(log, f) ==
    Send(websocket, log, [event |-> "setSettings", context |-> uuid,
                          payload |-> settings])
SaveSettingsSent(log, f) ==
    Send(websocket, log, [event |-> "setSettings", context |-> uuid,
                          payload |-> FormSettings(f)])

\* saveGlobalSettings(): setGlobalSettings to the host, then the relay to the plugin
\* (a variant without the relay, to test the properties against)
SaveGlobalSettingsSent_noRelay(log, f) ==
    Send(websocket, log, [event |-> "setGlobalSettings", context |-> uuid,
                          payload |-> FormGlobalSettings(f)])
\* (a variant with the relay ahead of the envelope, to test the properties against)
SaveGlobalSettingsSent_relayFirst(log, f) ==
    Send(websocket,
         TM_SendToPlugin(log, [action |-> "saveGlobalSettings"] @@ FormGlobalSettings(f)),
         [event |-> "setGlobalSettings", context |-> uuid, payload |-> FormGlobalSettings(f)])
SaveGlobalSettingsSent(log, f) ==
    TM_SendToPlugin(
        Send(websocket, log, [event |-> "setGlobalSettings", context |-> uuid,
                              payload |-> FormGlobalSettings(f)]),
        [action |-> "saveGlobalSettings"] @@ FormGlobalSettings(f))

\* a pending setTimeout callback.  remaining: ms until it is due.  originalText:
\* the text showSaveConfirmation read when it armed the timer.  answered (history,
\* not read by the code): a connectionTest reply was handled since it was armed.
SaveTimer(originalText) ==
    [kind |-> "save", remaining |-> SaveConfirmMs, originalText |-> originalText,
     answered |-> FALSE]
TestTimer ==
    [kind |-> "test", remaining |-> TestTimeoutMs, originalText |-> "",
     answered |-> FALSE]

(***************************************************************************)
(* onDocumentReady(): setupEventListeners(), initializeUI()                *)
(***************************************************************************)
SectionOf(action) ==
    CASE action = "com.twitchmod.streamdeck.shieldmode" -> "shieldSettings"
      [] action = "com.twitchmod.streamdeck.followersonly" -> "followerSettings"
      [] action = "com.twitchmod.streamdeck.slowmode" -> "slowSettings"
      [] OTHER -> "none"

\* initializeUI(): hide every section, then show the one of this.actionInfo?.action
InitializeUI ==
    [id \in DOMAIN sections |-> IF id = SectionOf(actionInfo) THEN "block" ELSE "none"]

OnDocumentReady ==
    /\ IsTM
    /\ ~ready
    /\ ready' = TRUE
    /\ sections' = InitializeUI
    /\ step' = Step("onDocumentReady", EmptyObj, << >>, << >>, NoError)
    /\ UNCHANGED <<utilsVars, hostGlobal, connVars, mirrorVars, dom, errorContainer,
                   form, testButton, connectionStatus,
                   saveButton, timers>>

(***************************************************************************)
(* The user's events; a listener exists once onDocumentReady has run and   *)
(* only for an element the page holds.                                     *)
(***************************************************************************)
\* saveSettings(), as an action on its own (callers: the listeners below)
SaveSettings ==
    /\ IsTM
    /\ CanSend(1)
    /\ sent' = SaveSettingsSent(sent, form)
    /\ settings' = FormSettings(form)
    /\ step' = Step("saveSettings", EmptyObj, << >>, << >>, NoError)
    /\ UNCHANGED <<utilsVars, hostGlobal, cls, websocket, uuid, registerEventName,
                   actionInfo, sockets,
                   globalSettings, pageVars>>

\* saveGlobalSettings()
SaveGlobalSettings ==
    /\ IsTM
    /\ CanSend(2)
    /\ sent' = SaveGlobalSettingsSent(sent, form)
    /\ globalSettings' = FormGlobalSettings(form)
    /\ step' = Step("saveGlobalSettings", EmptyObj, << >>, << >>, NoError)
    /\ hostGlobal' = HostReceives(hostGlobal, SentBy(sent, sent'))
    /\ UNCHANGED <<utilsVars, cls, websocket, uuid, registerEventName, actionInfo, sockets,
                   settings, pageVars>>

\* the user commits an edit of an action input: 'change' -> saveSettings()
ChangeActionInput(id, value) ==
    /\ IsTM /\ ready
    /\ id \in ActionInputs \cap dom
    /\ CanSend(1)
    /\ form' = [form EXCEPT ![id] = value]
    /\ sent' = SaveSettingsSent(sent, form')
    /\ settings' = FormSettings(form')
    /\ step' = Step("change:saveSettings", EmptyObj, << >>, << >>, NoError)
    /\ UNCHANGED <<utilsVars, hostGlobal, cls, websocket, uuid, registerEventName,
                   actionInfo, sockets,
                   globalSettings, dom, errorContainer, sections, testButton, connectionStatus,
                   saveButton, timers, ready>>

\* the user commits an edit of a global input: 'change' -> saveGlobalSettings()
ChangeGlobalInput(id, value) ==
    /\ IsTM /\ ready
    /\ id \in GlobalInputs \cap dom
    /\ CanSend(2)
    /\ form' = [form EXCEPT ![id] = value]
    /\ sent' = SaveGlobalSettingsSent(sent, form')
    /\ globalSettings' = FormGlobalSettings(form')
    /\ step' = Step("change:saveGlobalSettings", EmptyObj, << >>, << >>, NoError)
    /\ hostGlobal' = HostReceives(hostGlobal, SentBy(sent, sent'))
    /\ UNCHANGED <<utilsVars, cls, websocket, uuid, registerEventName, actionInfo, sockets,
                   settings, dom, errorContainer, sections, testButton, connectionStatus,
                   saveButton, timers, ready>>

\* click on #saveButton: saveGlobalSettings(); saveSettings(); showSaveConfirmation()
SaveClick ==
    /\ IsTM /\ ready
    /\ "saveButton" \in dom
    /\ CanSend(3)
    /\ sent' = SaveSettingsSent(SaveGlobalSettingsSent(sent, form), form)
    /\ globalSettings' = FormGlobalSettings(form)
    /\ settings' = FormSettings(form)
    /\ saveButton' = [textContent |-> "Saved!", saved |-> TRUE]
    /\ timers' = Append(timers, SaveTimer(saveButton.textContent))
    /\ step' = Step("click:saveButton", EmptyObj, << >>, << >>, NoError)
    /\ hostGlobal' = HostReceives(hostGlobal, SentBy(sent, sent'))
    /\ UNCHANGED <<utilsVars, cls, websocket, uuid, registerEventName, actionInfo, sockets,
                   dom, errorContainer, form, sections, testButton, connectionStatus, ready>>

\* openUrl(url), guarded like the other sends
TM_openUrl(url) ==
    /\ IsTM
    /\ CanSend(1)
    /\ sent' = Send(websocket, sent, [event |-> "openUrl", payload |-> [url |-> url]])
    /\ step' = Step("openUrl", EmptyObj, << >>, << >>, NoError)
    /\ UNCHANGED <<utilsVars, hostGlobal, cls, websocket, uuid, registerEventName,
                   actionInfo, sockets, tmVars>>

\* click on #getTokenButton / #getIdButton
UrlClick(button) ==
    /\ ready
    /\ button \in {"getTokenButton", "getIdButton"} \cap dom
    /\ TM_openUrl(IF button = "getTokenButton" THEN TokenUrl ELSE IdUrl)

TM_requestSettings ==
    /\ IsTM
    /\ CanSend(1)
    /\ sent' = Send(websocket, sent, GetSettingsEnvelope)
    /\ step' = Step("requestSettings", EmptyObj, << >>, << >>, NoError)
    /\ UNCHANGED <<utilsVars, hostGlobal, cls, websocket, uuid, registerEventName,
                   actionInfo, sockets, tmVars>>

TM_requestGlobalSettings ==
    /\ IsTM
    /\ CanSend(1)
    /\ sent' = Send(websocket, sent, GetGlobalSettingsEnvelope)
    /\ step' = Step("requestGlobalSettings", EmptyObj, << >>, << >>, NoError)
    /\ UNCHANGED <<utilsVars, hostGlobal, cls, websocket, uuid, registerEventName,
                   actionInfo, sockets, tmVars>>

TM_sendToPlugin(payload) ==
    /\ IsTM
    /\ CanSend(1)
    /\ sent' = TM_SendToPlugin(sent, payload)
    /\ step' = Step("sendToPlugin", EmptyObj, << >>, << >>, NoError)
    /\ UNCHANGED <<utilsVars, hostGlobal, cls, websocket, uuid, registerEventName,
                   actionInfo, sockets, tmVars>>


(***************************************************************************)
(* testTwitchConnection() and the timers.                                  *)
(***************************************************************************)
TestPayload ==
    [action |-> "testConnection"]
        @@ Restrict(globalSettings, {"twitchToken", "twitchClientId", "twitchBroadcasterId"})

\* click on #testConnection (a disabled button dispatches no click)
TestClick ==
    /\ IsTM /\ ready
    /\ "testConnection" \in dom
    /\ ~testButton.disabled
    /\ CanSend(1)
    /\ Len(timers) < MaxTimers
    /\ testButton' = [disabled |-> TRUE, textContent |-> "Testing..."]
    /\ connectionStatus' =
         IF "connectionStatus" \in dom
         THEN [textContent |-> "Testing connection...", className |-> "status-testing"]
         ELSE connectionStatus
    /\ sent' = TM_SendToPlugin(sent, TestPayload)
    /\ timers' = Append(timers, TestTimer)
    /\ step' = Step("click:testConnection", EmptyObj, << >>, << >>, NoError)
    /\ UNCHANGED <<utilsVars, hostGlobal, cls, websocket, uuid, registerEventName,
                   actionInfo, sockets,
                   mirrorVars, dom, errorContainer, form, sections, saveButton, ready>>

\* click on #saveButton, with the bound on pending timers
SaveButtonClick ==
    /\ Len(timers) < MaxTimers
    /\ SaveClick

RemoveAt(seq, i) == SubSeq(seq, 1, i - 1) \o SubSeq(seq, i + 1, Len(seq))

\* the callback of testTwitchConnection's setTimeout
\* (a variant that leaves the button alone, to test the properties against)
TestTimeoutButton_keeps == testButton
TestTimeoutButton ==
    IF testButton.disabled
    THEN [disabled |-> FALSE, textContent |-> "Test Connection"]
    ELSE testButton

TestTimeoutStatus ==
    IF testButton.disabled /\ "connectionStatus" \in dom
    THEN [textContent |-> "Test timed out", className |-> "status-error"]
    ELSE connectionStatus

\* the first timer due fires (equal deadlines fire in arming order)
TimerFire ==
    /\ \E i \in 1..Len(timers) :
        /\ timers[i].remaining = 0
        /\ \A j \in 1..(i-1) : timers[j].remaining > 0
        /\ timers' = RemoveAt(timers, i)
        /\ step' = Step("timeout:" \o timers[i].kind, timers[i], << >>, << >>, NoError)
        /\ IF timers[i].kind = "test"
           THEN /\ testButton' = TestTimeoutButton
                /\ connectionStatus' = TestTimeoutStatus
                /\ UNCHANGED saveButton
           ELSE /\ saveButton' = [textContent |-> timers[i].originalText, saved |-> FALSE]
                /\ UNCHANGED <<testButton, connectionStatus>>
    /\ UNCHANGED <<utilsVars, hostGlobal, connVars, mirrorVars, dom, errorContainer,
                   form, sections, ready>>

\* time passes, up to the next deadline
TickSteps == {SaveConfirmMs}
Tick(d) ==
    /\ Len(timers) > 0
    /\ \A i \in 1..Len(timers) : timers[i].remaining >= d
    /\ timers' = [i \in 1..Len(timers) |->
                     [timers[i] EXCEPT !.remaining = timers[i].remaining - d]]
    /\ step' = Step("tick", EmptyObj, << >>, << >>, NoError)
    /\ UNCHANGED <<utilsVars, hostGlobal, connVars, mirrorVars, dom, errorContainer,
                   form, sections, testButton,
                   connectionStatus, saveButton, ready>>

(***************************************************************************)
(* websocket.onmessage of TwitchModPropertyInspector                       *)
(***************************************************************************)
\* element.value = settings.<id> for each truthy value whose element exists
ReceivedForm(s, ids) ==
    [id \in DOMAIN form |->
        IF id \in ids /\ Has(s, id)
           /\ (IF id \in ActionInputs THEN s[id] # 0 ELSE Len(s[id]) > 0)
        THEN (IF id \in ActionInputs THEN NumberToString(s[id]) ELSE s[id])
        ELSE form[id]]

\* handleConnectionTestResult(success, message)
ResultStatus(payload) ==
    LET success == Has(payload, "success") /\ payload["success"]
        message == IF Has(payload, "message") THEN payload["message"] ELSE ""
    IN  [textContent |-> IF message # "" THEN message
                         ELSE IF success THEN "Connected successfully!"
                         ELSE "Connection failed",
         className |-> IF success THEN "status-success" ELSE "status-error"]

TM_KnownEvents == {"didReceiveSettings", "didReceiveGlobalSettings", "sendToPropertyInspector"}
TM_EventOf(data) == IF Has(data, "event") THEN data["event"] ELSE "undefined"

TM_onmessage(data) ==
    LET event == TM_EventOf(data)
        payload == PayloadOf(data)
        hasSettings == Has(payload, "settings")
        s == IF hasSettings THEN payload["settings"] ELSE EmptyObj
        isResult == Has(payload, "event") /\ payload["event"] = "connectionTest"
    IN  /\ IsTM
        /\ websocket = OPEN
        /\ CASE event = "didReceiveSettings" ->
                  /\ settings' = s
                  /\ form' = IF hasSettings THEN ReceivedForm(s, ActionInputs) ELSE form
                  /\ step' = Step("onmessage", data,
                                  << Call("onDidReceiveSettings", Restrict(payload, {"settings"})) >>,
                                  << >>, IF hasSettings THEN NoError ELSE TypeError)
                  /\ UNCHANGED <<globalSettings, testButton, connectionStatus, timers>>
             [] event = "didReceiveGlobalSettings" ->
                  /\ globalSettings' = s
                  /\ form' = IF hasSettings THEN ReceivedForm(s, GlobalInputs) ELSE form
                  /\ step' = Step("onmessage", data,
                                  << Call("onDidReceiveGlobalSettings", Restrict(payload, {"settings"})) >>,
                                  << >>, IF hasSettings THEN NoError ELSE TypeError)
                  /\ UNCHANGED <<settings, testButton, connectionStatus, timers>>
             [] event = "sendToPropertyInspector" ->
                  /\ step' = Step("onmessage", data,
                                  << Call("onSendToPropertyInspector", [payload |-> payload]) >>
                                    \o (IF isResult
                                        THEN << Call("handleConnectionTestResult",
                                                     Restrict(payload, {"success", "message"})) >>
                                        ELSE << >>),
                                  << >>, NoError)
                  /\ testButton' = IF isResult /\ "testConnection" \in dom
                                   THEN [disabled |-> FALSE, textContent |-> "Test Connection"]
                                   ELSE testButton
                  /\ connectionStatus' = IF isResult /\ "connectionStatus" \in dom
                                         THEN ResultStatus(payload) ELSE connectionStatus
                  /\ timers' = IF isResult
                               THEN [i \in 1..Len(timers) |->
                                        IF timers[i].kind = "test"
                                        THEN [timers[i] EXCEPT !.answered = TRUE]
                                        ELSE timers[i]]
                               ELSE timers
                  /\ UNCHANGED <<mirrorVars, form>>
             [] OTHER ->
                  /\ step' = Step("onmessage", data, << >>, << >>, NoError)
                  /\ UNCHANGED <<mirrorVars, form, testButton, connectionStatus, timers>>
        /\ UNCHANGED <<utilsVars, hostGlobal, connVars, dom, errorContainer, sections,
                       saveButton, ready>>


(***************************************************************************)
(* The specification of the three adapters: the connection, the dispatch   *)
(* of inbound frames and the outbound calls.  The page of                  *)
(* TwitchModPropertyInspector keeps its initial form here; its clicks and  *)
(* timers are the subject of the specifications further down.              *)
(***************************************************************************)
TMFrames ==
    { Frame(e, << >>, p) :
        e \in Opt(TM_KnownEvents \cup {"keyDown"} \cup UnknownEvents),
        p \in Opt(PluginPayloads) }

InitPage(present, values) ==
    /\ dom = present
    /\ form = values
    /\ sections = [id \in SectionIds \cap present |-> ""]
    /\ testButton = [disabled |-> FALSE, textContent |-> "Test Connection"]
    /\ connectionStatus = [textContent |-> "", className |-> ""]
    /\ saveButton = [textContent |-> "Save Settings", saved |-> FALSE]
    /\ errorContainer = [errors |-> << >>, display |-> ""]
    /\ timers = << >>
    /\ ready = FALSE

\* the state the constructors leave
InitAdapter(c) ==
    /\ cls = c
    /\ websocket = Null
    /\ uuid = Null
    /\ registerEventName = Null
    /\ actionInfo = Null
    /\ sockets = 0
    /\ sent = << >>
    /\ hostGlobal = EmptyObj
    /\ clock = 0
    /\ limiter = [made |-> FALSE, maxRequests |-> 0, timeWindow |-> 0,
                  requests |-> << >>, calls |-> << >>]
    /\ retry = [phase |-> "idle", maxRetries |-> 0, delay |-> 0, i |-> 0, wake |-> 0,
                attempts |-> 0, results |-> << >>, outcome |-> << >>]
    /\ debounced = [made |-> FALSE, wait |-> 0, timeout |-> 0, timers |-> << >>,
                    burst |-> << >>, sinceCall |-> 0]
    /\ throttled = [made |-> FALSE, limit |-> 0, inThrottle |-> FALSE, timers |-> << >>,
                    sinceInvoked |-> 0, invoked |-> FALSE]
    /\ build = [pc |-> "idle", dirs |-> {}, files |-> << >>, name |-> 1, index |-> 0]
    /\ settings = EmptyObj
    /\ globalSettings = EmptyObj
    /\ step = Step("constructor", EmptyObj, << >>, << >>, NoError)

Init ==
    /\ \E c \in Classes : InitAdapter(c)
    /\ InitPage(ElementIds, [id \in InputIds |-> << >>])

HostStep ==
    \/ \E u \in UUIDs, a \in {"com.twitchmod.streamdeck.shieldmode", Null} :
          Connect(u, RegisterEventOf(cls), a)
    \/ SocketOpen
    \/ SocketClosing
    \/ SocketClose
    \/ SocketFail
    \/ \E data \in LibraryFrames : Library_onmessage(data)
    \/ \E data \in TMFrames : TM_onmessage(data)

\* the calls of a plugin, its contexts drawn from ctxs
PluginCalls(ctxs) ==
    \/ \E c \in ctxs, s \in CallerSettings : Plugin_setSettings(c, s)
    \/ \E c \in ctxs : Plugin_getSettings(c)
    \/ \E s \in CallerSettings : Plugin_setGlobalSettings(s)
    \/ Plugin_getGlobalSettings
    \/ \E url \in CallerUrls : Plugin_openUrl(url)
    \/ \E m \in CallerTitles : Plugin_logMessage(m)
    \/ \E c \in ctxs, t \in CallerTitles, st \in CallerStates : Plugin_setTitle(c, t, st)
    \/ \E c \in ctxs, t \in CallerTitles, st \in CallerStates : Plugin_setImage(c, t, st)
    \/ \E c \in ctxs, st \in CallerStates \ {Null} : Plugin_setState(c, st)
    \/ \E c \in ctxs : Plugin_showAlert(c)
    \/ \E c \in ctxs : Plugin_showOk(c)
    \/ \E c \in ctxs, p \in CallerPayloads, a \in {"com.twitchmod.streamdeck.shieldmode"} :
          Plugin_sendToPropertyInspector(c, p, a)

PluginCallerStep == PluginCalls(Contexts)

PICallerStep ==
    \/ \E p \in CallerPayloads : PI_sendToPlugin(p)
    \/ \E s \in CallerSettings : PI_setSettings(s)
    \/ PI_getSettings
    \/ \E s \in CallerSettings : PI_setGlobalSettings(s)
    \/ PI_getGlobalSettings
    \/ \E url \in CallerUrls : PI_openUrl(url)

TMCallerStep ==
    \/ SaveSettings
    \/ SaveGlobalSettings
    \/ \E url \in CallerUrls : TM_openUrl(url)
    \/ TM_requestSettings
    \/ TM_requestGlobalSettings
    \/ \E p \in CallerPayloads : TM_sendToPlugin(p)

Next == HostStep \/ PluginCallerStep \/ PICallerStep \/ TMCallerStep

Spec == Init /\ [][Next]_vars


(***************************************************************************)
(* Claims about the connection, the dispatch and the outbound helpers.     *)
(***************************************************************************)
\* the registration envelope the host expects of this adapter
ExpectedRegistration == [event |-> RegisterEventOf(cls), uuid |-> uuid]

StepEvent == IF Has(step.frame, "event") THEN step.frame["event"] ELSE "undefined"

\* C1: once the socket has opened, the first envelope on the connection is the
\* registration {event: registerEventName, uuid: instanceUUID}, it occurs exactly
\* once, and nothing is on the connection before the socket opens.
C1_RegisterOnceFirst ==
    /\ websocket \in {Null, CONNECTING} => sent = << >>
    /\ websocket \in {OPEN, CLOSING} => sent # << >>
    /\ step.op = "onopen" => sent # << >>
    /\ sent # << >> =>
         /\ sent[1] = ExpectedRegistration
         /\ \A i \in 2..Len(sent) : sent[i] # ExpectedRegistration

\* the socket is open and a later envelope followed the registration
C1_Witness ==
    /\ cls = StreamDeckPlugin
    /\ websocket = OPEN
    /\ Len(sent) >= 2
    /\ sent[1] = ExpectedRegistration
    /\ step.op = "showOk"

\* C2 as stated: right after the socket opens, every adapter has sent the
\* registration, one getSettings and one getGlobalSettings scoped to its UUID.
C2_AllRequestSettings ==
    step.op = "onopen" =>
        /\ Len(sent) = 3
        /\ sent[1] = ExpectedRegistration
        /\ {sent[2], sent[3]} = { [event |-> "getSettings", context |-> uuid],
                                  [event |-> "getGlobalSettings", context |-> uuid] }

\* C2 amended: right after the socket opens, TwitchModPropertyInspector has sent
\* the registration, one getGlobalSettings and one getSettings scoped to its UUID;
\* the two library classes have sent the registration alone and have invoked
\* the onConnected hook.
C2_OnlyInspectorRequests ==
    step.op = "onopen" =>
        IF cls = TwitchModPropertyInspector
        THEN /\ Len(sent) = 3
             /\ sent[1] = ExpectedRegistration
             /\ {sent[2], sent[3]} = { [event |-> "getSettings", context |-> uuid],
                                       [event |-> "getGlobalSettings", context |-> uuid] }
        ELSE /\ sent = << ExpectedRegistration >>
             /\ step.calls = << Call("onConnected", EmptyObj) >>

C2_Witness ==
    /\ step.op = "onopen"
    /\ cls = TwitchModPropertyInspector
    /\ Len(sent) = 3
    /\ sent[3].context = uuid

HelperOps == EventsSent \cup {"requestSettings", "requestGlobalSettings"}

\* C3 as stated: an outbound helper called while the socket is null or not OPEN
\* sends nothing, raises no error and leaves the adapter as it was, and nothing
\* dropped is on the connection after the socket opens.
C3_HelpersNoOpUnlessOpen ==
    [][ /\ (step'.op \in HelperOps /\ ~IsOpen) =>
              /\ step'.error = NoError
              /\ UNCHANGED <<utilsVars, hostGlobal, connVars, tmVars>>
        /\ step'.op = "onopen" => sent' = OnOpenSent ]_vars

\* the event names each class has a case for
RecognizedBy(c) ==
    IF c = StreamDeckPlugin THEN EventsReceived \ {"sendToPropertyInspector"}
    ELSE IF c = StreamDeckPropertyInspector THEN {"sendToPropertyInspector"}
    ELSE {"didReceiveSettings", "didReceiveGlobalSettings", "sendToPropertyInspector"}

\* C4: a frame whose event is missing or is not one the adapter has a case for
\* invokes no handler, raises no error and leaves the adapter unchanged.
C4_UnknownEventIgnored ==
    [][ (step'.op = "onmessage"
            /\ (~Has(step'.frame, "event") \/ step'.frame["event"] \notin RecognizedBy(cls))) =>
          /\ step'.calls = << >>
          /\ step'.error = NoError
          /\ UNCHANGED <<utilsVars, hostGlobal, connVars, tmVars>> ]_vars

\* a frame with no event field has been handled
C4_Witness ==
    /\ step.op = "onmessage"
    /\ ~Has(step.frame, "event")
    /\ Has(step.frame, "payload")
    /\ step.calls = << >>

\* the handler named after each event of StreamDeckPlugin
HandlerNamedAfter(event) ==
    CASE event = "didReceiveSettings" -> "onSettings"
      [] event = "didReceiveGlobalSettings" -> "onGlobalSettings"
      [] event = "keyDown" -> "onKeyDown"
      [] event = "keyUp" -> "onKeyUp"
      [] event = "willAppear" -> "onWillAppear"
      [] event = "willDisappear" -> "onWillDisappear"
      [] event = "titleParametersDidChange" -> "onTitleParametersDidChange"
      [] event = "deviceDidConnect" -> "onDeviceDidConnect"
      [] event = "deviceDidDisconnect" -> "onDeviceDidDisconnect"
      [] event = "applicationDidLaunch" -> "onApplicationDidLaunch"
      [] event = "applicationDidTerminate" -> "onApplicationDidTerminate"
      [] event = "systemDidWakeUp" -> "onSystemDidWakeUp"
      [] event = "propertyInspectorDidAppear" -> "onPropertyInspectorDidAppear"
      [] event = "propertyInspectorDidDisappear" -> "onPropertyInspectorDidDisappear"
      [] event = "sendToPlugin" -> "onSendToPlugin"

\* C5: for each of its 15 events StreamDeckPlugin.handleMessage invokes exactly
\* one handler, the one named after the event, once per frame; a frame without a
\* payload is dispatched with an empty payload and raises no error.
C5_PluginDispatchTable ==
    (cls = StreamDeckPlugin /\ step.op = "onmessage"
        /\ StepEvent \in RecognizedBy(StreamDeckPlugin)) =>
      /\ Cardinality(RecognizedBy(StreamDeckPlugin)) = 15
      /\ Len(step.calls) = 1
      /\ step.calls[1].handler = HandlerNamedAfter(StepEvent)
      /\ step.error = NoError
      /\ ~Has(step.frame, "payload") =>
            /\ StepEvent = "sendToPlugin" => step.calls[1].args["payload"] = EmptyObj
            /\ DOMAIN step.calls[1].args \subseteq {"context", "action", "device",
                                                    "deviceInfo", "payload"}

\* sendToPlugin without a payload reached onSendToPlugin with {}
C5_Witness ==
    /\ cls = StreamDeckPlugin
    /\ step.op = "onmessage"
    /\ StepEvent = "sendToPlugin"
    /\ ~Has(step.frame, "payload")
    /\ Len(step.calls) = 1
    /\ step.calls[1].args["payload"] = EmptyObj

\* C6: StreamDeckPropertyInspector.handleMessage invokes
\* onSendToPropertyInspector(payload) for 'sendToPropertyInspector' and no
\* handler for any other event, didReceiveSettings and
\* didReceiveGlobalSettings included.
C6_InspectorDispatch ==
    (cls = StreamDeckPropertyInspector /\ step.op = "onmessage") =>
        IF StepEvent = "sendToPropertyInspector"
        THEN step.calls = << Call("onSendToPropertyInspector",
                                  [payload |-> PayloadOf(step.frame)]) >>
        ELSE step.calls = << >>

C6_Witness ==
    /\ cls = StreamDeckPropertyInspector
    /\ step.op = "onmessage"
    /\ StepEvent = "didReceiveGlobalSettings"
    /\ Has(step.frame, "payload")
    /\ step.calls = << >>

\* what C7 holds of every step: a socket is constructed by connect alone and
\* once per call, and from the close onward nothing is sent
NoReconnect ==
    /\ sockets' = IF step'.op = "connect" THEN sockets + 1 ELSE sockets
    /\ sockets' <= 1
    /\ (websocket # Null /\ websocket = CLOSED) => (sent' = sent /\ websocket' = CLOSED)

\* C7 as stated: no adapter reconnects; on a close or error event every adapter
\* logs and invokes its onError / onDisconnected hook once for that event.
C7_HooksOnEveryAdapter ==
    [][ /\ NoReconnect
        /\ step'.op = "onclose" =>
              /\ step'.calls = << Call("onDisconnected", EmptyObj) >>
              /\ Len(step'.logs) = 1
        /\ step'.op = "onerror+onclose" =>
              /\ step'.calls = << Call("onError", EmptyObj), Call("onDisconnected", EmptyObj) >>
              /\ Len(step'.logs) = 2 ]_vars

\* C7 amended: no adapter reconnects or retries; on a close or error event
\* StreamDeckPlugin and StreamDeckPropertyInspector log and invoke onError /
\* onDisconnected once for that event, TwitchModPropertyInspector (which has no
\* such hooks) only logs; no socket is opened after it and from the close
\* onward no envelope is sent.
C7_NoReconnectHooksOfLibrary ==
    [][ /\ NoReconnect
        /\ step'.op = "onclose" =>
              /\ step'.calls = IF cls \in LibraryClasses
                               THEN << Call("onDisconnected", EmptyObj) >> ELSE << >>
              /\ Len(step'.logs) = 1
        /\ step'.op = "onerror+onclose" =>
              /\ step'.calls = IF cls \in LibraryClasses
                               THEN << Call("onError", EmptyObj), Call("onDisconnected", EmptyObj) >>
                               ELSE << >>
              /\ Len(step'.logs) = 2 ]_vars

\* a helper was called after the connection had failed, and nothing was sent
C7_Witness ==
    /\ websocket = CLOSED
    /\ sockets = 1
    /\ step.op = "getGlobalSettings"
    /\ Len(sent) = 1

(***************************************************************************)
(* The connection test of TwitchModPropertyInspector: the page is loaded,  *)
(* the user clicks #testConnection, the plugin's replies arrive as         *)
(* sendToPropertyInspector frames, time passes and the timeouts fire.      *)
(***************************************************************************)
TestReplyPayloads ==
    { [event |-> "connectionTest", success |-> TRUE],
      [event |-> "connectionTest", success |-> FALSE, message |-> "Invalid token"],
      [event |-> "statusUpdate"] }

TestReplies ==
    { Frame(<< "sendToPropertyInspector" >>, << >>, << p >>) : p \in TestReplyPayloads }

InitTest ==
    /\ InitAdapter(TwitchModPropertyInspector)
    /\ InitPage(ElementIds, [id \in InputIds |-> << >>])

NextTest ==
    \/ \E u \in UUIDs : Connect(u, RegisterEventOf(cls), "com.twitchmod.streamdeck.shieldmode")
    \/ SocketOpen
    \/ SocketClose
    \/ OnDocumentReady
    \/ TestClick
    \/ TimerFire
    \/ \E d \in TickSteps : Tick(d)
    \/ \E data \in TestReplies : TM_onmessage(data)

SpecTest == InitTest /\ [][NextTest]_vars

\* the step handled a connectionTest reply
IsTestReply(s) ==
    /\ s.op = "onmessage"
    /\ Has(s.frame, "payload")
    /\ Has(s.frame["payload"], "event")
    /\ s.frame["payload"]["event"] = "connectionTest"

\* C8 (first part): a connection-test click disables the button, relays one
\* testConnection message over the open socket and arms a 10000 ms timeout.
C8_ClickArms ==
    [][ step'.op = "click:testConnection" =>
          /\ testButton'.disabled
          /\ Len(timers') = Len(timers) + 1
          /\ timers'[Len(timers')].kind = "test"
          /\ timers'[Len(timers')].remaining = 10000
          /\ IsOpen =>
               /\ Len(sent') = Len(sent) + 1
               /\ sent'[Len(sent')].event = "sendToPlugin"
               /\ sent'[Len(sent')].payload["action"] = "testConnection" ]_vars

\* C8 (second part): a timeout that fires with no connectionTest reply handled
\* since its click leaves the button enabled and the status 'Test timed out'.
C8_UnansweredTimesOut ==
    [][ (step'.op = "timeout:test" /\ ~step'.frame.answered) =>
          /\ ~testButton'.disabled
          /\ connectionStatus'.textContent = "Test timed out" ]_vars

\* C8 (third part): a connectionTest reply re-enables the button.
C8_ReplyEnables ==
    [][ IsTestReply(step') => ~testButton'.disabled ]_vars

\* C8 as stated: a connection-test click disables the test button, relays a
\* testConnection message and arms a 10000 ms timeout; a timeout that fires
\* with no connectionTest reply since its click sets the status 'Test timed out'
\* and re-enables the button; a reply re-enables the button, and the timeout of
\* a click whose reply arrived first changes neither the button nor the status.
C8_TestTimeout ==
    /\ C8_ClickArms
    /\ C8_UnansweredTimesOut
    /\ C8_ReplyEnables
    /\ [][ (step'.op = "timeout:test" /\ step'.frame.answered) =>
              UNCHANGED <<testButton, connectionStatus>> ]_vars

\* a test timer is pending
TestPending(ts) == \E i \in 1..Len(ts) : ts[i].kind = "test"

\* C24: a timeout re-enables the button or shows 'Test timed out' only when it
\* is the timeout of the most recently issued test and no connectionTest reply
\* was handled in its 10000 ms: the timeout of an earlier test never does so
\* while a later test, pending for less than 10000 ms, still has its own timer.
C24_TimeoutOnlyOfLatestTest ==
    [][ (/\ step'.op = "timeout:test"
         /\ \/ testButton.disabled /\ ~testButton'.disabled
            \/ /\ connectionStatus' # connectionStatus
               /\ connectionStatus'.textContent = "Test timed out") =>
            /\ ~TestPending(timers')
            /\ ~step'.frame.answered ]_vars

\* the connection test with timers that fire when due and time that goes on
SpecTestLive ==
    /\ SpecTest
    /\ WF_vars(TimerFire)
    /\ WF_vars(\E d \in TickSteps : Tick(d))

\* C25: whenever the test button is disabled, the timeout of the click that
\* disabled it is pending and due within 10000 ms, and the button is enabled
\* again later, whether the socket was open at the click or not and whether a
\* reply arrives or not.
C25_DisabledButtonReenabled ==
    /\ [](testButton.disabled =>
             \E i \in 1..Len(timers) :
                 /\ timers[i].kind = "test"
                 /\ ~timers[i].answered
                 /\ timers[i].remaining <= 10000)
    /\ testButton.disabled ~> ~testButton.disabled

\* the timeout of a click made with the socket not open, and never answered,
\* has just enabled the button again
C25_Witness ==
    /\ ~IsOpen
    /\ sent = << >>
    /\ step.op = "timeout:test"
    /\ ~step.frame.answered
    /\ ~testButton.disabled
    /\ connectionStatus.textContent = "Test timed out"


(***************************************************************************)
(* saveSettings() over the pages and the field contents it can meet: each  *)
(* numeric element present or absent, each value one of NumericInputs.     *)
(***************************************************************************)
NumericInputs ==
    { << >>, << "0" >>, << "5" >>, << "3", "0", "0" >>, << "1", "2", "a" >>,
      << "a", "b", "c" >>, << " ", "7" >>, << "-", "4" >> }

\* the pages: the three numeric elements present or not, the rest present
SavePages == { ElementIds \ absent : absent \in SUBSET ActionInputs }

\* the forms of a page: a value for each numeric element it holds
SaveForms(page) ==
    { [id \in InputIds |-> IF id \in ActionInputs \cap page THEN v[id] ELSE << >>] :
        v \in [ActionInputs -> NumericInputs] }

InitSave ==
    /\ InitAdapter(TwitchModPropertyInspector)
    /\ \E page \in SavePages : \E f \in SaveForms(page) : InitPage(page, f)

NextSave ==
    \/ \E u \in UUIDs : Connect(u, RegisterEventOf(cls), "com.twitchmod.streamdeck.shieldmode")
    \/ SocketOpen
    \/ SocketClose
    \/ OnDocumentReady
    \/ SaveSettings

SpecSave == InitSave /\ [][NextSave]_vars

\* the payload of the setSettings envelope the last step sent
SavedPayload == sent[Len(sent)].payload

\* the value of the field does not parse as an integer
Unparsable(id) == ParseInt(form[id]).nan

\* C9 as stated: after saveSettings, each numeric setting whose form field is
\* absent or whose value fails to parse as an integer is saved with its default
\* (300, 10, 3), in the local settings and in the setSettings payload.
C9_AbsentOrUnparsableGetsDefault ==
    step.op = "saveSettings" =>
        \A id \in ActionInputs :
            (id \notin dom \/ Unparsable(id)) =>
                /\ Has(settings, id)
                /\ settings[id] = DefaultOf(id)
                /\ IsOpen => /\ sent[Len(sent)].event = "setSettings"
                             /\ Has(SavedPayload, id)
                             /\ SavedPayload[id] = DefaultOf(id)

\* C9 amended: after saveSettings, each numeric setting whose form field is
\* present and whose value fails to parse as an integer is saved with its
\* default (300, 10, 3), and each numeric setting whose form field is absent is
\* left out, in the local settings and in the setSettings payload alike.
C9_UnparsableGetsDefaultAbsentOmitted ==
    step.op = "saveSettings" =>
        /\ IsOpen => /\ sent[Len(sent)].event = "setSettings"
                     /\ SavedPayload = settings
        /\ \A id \in ActionInputs \ dom : ~Has(settings, id)
        /\ \A id \in ActionInputs \cap dom :
              Unparsable(id) =>
                 /\ Has(settings, id)
                 /\ settings[id] = (CASE id = "shieldDuration" -> 300
                                      [] id = "followDuration" -> 10
                                      [] id = "slowDelay" -> 3)

\* saveSettings ran over an open socket on a page without #slowDelay, with an
\* unparsable shieldDuration and a parsable followDuration
C9_Witness ==
    /\ step.op = "saveSettings"
    /\ IsOpen
    /\ dom \cap ActionInputs = {"shieldDuration", "followDuration"}
    /\ form["shieldDuration"] = << "a", "b", "c" >>
    /\ form["followDuration"] = << "5" >>
    /\ SavedPayload = [shieldDuration |-> 300, followDuration |-> 5]


(***************************************************************************)
(* The channel name: saveGlobalSettings() and validateTwitchUsername()     *)
(* over channel inputs with and without a leading '@', white space around  *)
(* the name, names of every length up to ChannelCoreMaxLen and names       *)
(* holding a character outside [a-zA-Z0-9_].                               *)
(***************************************************************************)
\* validateTwitchUsername(username), as validateInputs calls it
TM_validateTwitchUsername(username) ==
    /\ IsTM
    /\ step' = StepReturning("validateTwitchUsername", [username |-> username],
                             ValidateTwitchUsername(username))
    /\ UNCHANGED <<utilsVars, hostGlobal, connVars, tmVars>>

\* longest name generated: one more than the regex admits
ChannelCoreMaxLen == 26

WordPattern == << "a", "Z", "7", "_" >>

\* a name of n characters of the four classes of the regex; position k, if any,
\* holds the character b instead
ChannelCore(n, k, b) ==
    [i \in 1..n |-> IF i = k THEN b ELSE WordPattern[(i % 4) + 1]]

ChannelCores ==
    { ChannelCore(n, 0, "a") : n \in 0..ChannelCoreMaxLen }
        \cup { ChannelCore(n, k, b) :
                 n \in 1..ChannelCoreMaxLen, k \in {1, 3}, b \in {"-", "@", " "} }

ChannelInputs ==
    { lead \o pre \o core \o post :
        lead \in { << >>, << "@" >> }, pre \in { << >>, << " " >> },
        core \in ChannelCores, post \in { << >>, << " " >> } }

InitChannel ==
    /\ InitAdapter(TwitchModPropertyInspector)
    /\ \E input \in ChannelInputs :
          InitPage(ElementIds,
                   [id \in InputIds |-> IF id = "twitchChannel" THEN input ELSE << >>])

NextChannel ==
    \/ \E u \in UUIDs : Connect(u, RegisterEventOf(cls), "com.twitchmod.streamdeck.shieldmode")
    \/ SocketOpen
    \/ SocketClose
    \/ SaveGlobalSettings
    \/ TM_validateTwitchUsername(form["twitchChannel"])

SpecChannel == InitChannel /\ [][NextChannel]_vars

ChannelInput == form["twitchChannel"]
HasLeadingAt == Len(ChannelInput) > 0 /\ ChannelInput[1] = "@"
\* the input after its leading '@'
Remainder == Tail(ChannelInput)

RECURSIVE DropTrailingSpace(_)
DropTrailingSpace(s) ==
    IF Len(s) > 0 /\ s[Len(s)] \in {" ", "\t", "\n"}
    THEN DropTrailingSpace(SubSeq(s, 1, Len(s) - 1)) ELSE s

RECURSIVE DropLeadingSpace(_)
DropLeadingSpace(s) ==
    IF Len(s) > 0 /\ s[1] \in {" ", "\t", "\n"} THEN DropLeadingSpace(Tail(s)) ELSE s

\* 4 to 25 characters from [a-zA-Z0-9_]
IsUsername(s) ==
    /\ Len(s) \in 4..25
    /\ \A i \in 1..Len(s) : s[i] \in Lower \cup Upper \cup Digit \cup {"_"}

\* the twitchChannel the last saveGlobalSettings stored and sent is v
ChannelSavedAs(v) ==
    /\ Has(globalSettings, "twitchChannel")
    /\ globalSettings["twitchChannel"] = v
    /\ IsOpen =>
         /\ sent[Len(sent) - 1].event = "setGlobalSettings"
         /\ sent[Len(sent) - 1].payload["twitchChannel"] = v
         /\ sent[Len(sent)].event = "sendToPlugin"
         /\ sent[Len(sent)].payload["twitchChannel"] = v

\* C10 as stated: for a channel input with a leading '@', saveGlobalSettings
\* stores the input with that '@' stripped, and validateTwitchUsername passes
\* exactly when the remainder after the '@' is 4 to 25 characters of [a-zA-Z0-9_].
C10_StrippedAndValidIffRemainder ==
    HasLeadingAt =>
        /\ step.op = "saveGlobalSettings" => ChannelSavedAs(Remainder)
        /\ step.op = "validateTwitchUsername" =>
              (step.returned = << TRUE >> <=> IsUsername(Remainder))

\* C10 amended: for a channel input with a leading '@', saveGlobalSettings
\* stores the input with that '@' and any trailing white space removed, and
\* validateTwitchUsername passes exactly when the remainder after the '@', with
\* its leading and trailing white space removed, is 4 to 25 characters of
\* [a-zA-Z0-9_].
C10_StrippedTrimmedAndValidIffTrimmedRemainder ==
    HasLeadingAt =>
        /\ step.op = "saveGlobalSettings" => ChannelSavedAs(DropTrailingSpace(Remainder))
        /\ step.op = "validateTwitchUsername" =>
              (step.returned = << TRUE >>
                  <=> IsUsername(DropLeadingSpace(DropTrailingSpace(Remainder))))

\* '@' and a name of four characters followed by a space was saved over the open
\* socket, stored without the '@' and the space, and then passed the validation
C10_Witness ==
    /\ HasLeadingAt
    /\ ChannelInput = << "@", "Z", "7", "_", "a", " " >>
    /\ IsOpen
    /\ Has(globalSettings, "twitchChannel")
    /\ globalSettings["twitchChannel"] = << "Z", "7", "_", "a" >>
    /\ step.op = "validateTwitchUsername"
    /\ step.returned = << TRUE >>

\* C29: validation and storage of the channel agree: when the channel input
\* passes validateTwitchUsername, the twitchChannel that saveGlobalSettings
\* stored and sent for it is 4 to 25 characters of [a-zA-Z0-9_], with no white
\* space and no '@' left.
C29_AcceptedIsStoredClean ==
    (/\ step.op = "validateTwitchUsername"
     /\ step.returned = << TRUE >>
     /\ Has(globalSettings, "twitchChannel")) =>
        /\ IsUsername(globalSettings["twitchChannel"])
        /\ \A i \in 1..Len(sent) :
              sent[i].event = "setGlobalSettings" =>
                  IsUsername(sent[i].payload["twitchChannel"])


(***************************************************************************)
(* validateInputs(): the four checks, the error list, the error panel.     *)
(***************************************************************************)
\* the error pushed when the check of a field fails
ErrorOf(id) ==
    CASE id = "twitchChannel" -> "Invalid Twitch channel name"
      [] id = "twitchToken" -> "OAuth token is required"
      [] id = "twitchBroadcasterId" -> "Broadcaster ID must be numeric"
      [] id = "twitchModeratorId" -> "Moderator ID must be numeric"

\* !/^\d+$/.test(input.value): the value is tested as it stands
\* (a variant that trims first, to test the properties against)
IdRejected_trimmed(value) == ~NumericRegex(Trim(value))
IdRejected(value) == ~NumericRegex(value)

\* the errors collected, in the order of the checks; a check is made only of an
\* element the page holds
ValidationErrors(f) ==
       (IF "twitchChannel" \in dom /\ ~ValidateTwitchUsername(f["twitchChannel"])
        THEN << ErrorOf("twitchChannel") >> ELSE << >>)
    \o (IF "twitchToken" \in dom /\ Len(f["twitchToken"]) = 0
        THEN << ErrorOf("twitchToken") >> ELSE << >>)
    \o (IF "twitchBroadcasterId" \in dom /\ IdRejected(f["twitchBroadcasterId"])
        THEN << ErrorOf("twitchBroadcasterId") >> ELSE << >>)
    \o (IF "twitchModeratorId" \in dom /\ IdRejected(f["twitchModeratorId"])
        THEN << ErrorOf("twitchModeratorId") >> ELSE << >>)

\* isValid: true until a check fails
\* (a variant that forgets the token check, to test the properties against)
IsValid_noToken(f) ==
    /\ ~("twitchChannel" \in dom /\ ~ValidateTwitchUsername(f["twitchChannel"]))
    /\ ~("twitchBroadcasterId" \in dom /\ IdRejected(f["twitchBroadcasterId"]))
    /\ ~("twitchModeratorId" \in dom /\ IdRejected(f["twitchModeratorId"]))
IsValid(f) ==
    /\ ~("twitchChannel" \in dom /\ ~ValidateTwitchUsername(f["twitchChannel"]))
    /\ ~("twitchToken" \in dom /\ Len(f["twitchToken"]) = 0)
    /\ ~("twitchBroadcasterId" \in dom /\ IdRejected(f["twitchBroadcasterId"]))
    /\ ~("twitchModeratorId" \in dom /\ IdRejected(f["twitchModeratorId"]))

\* the error panel after the checks: filled and shown, or hidden with its
\* content left as it was
ErrorPanel(errors) ==
    IF "errorContainer" \notin dom THEN errorContainer
    ELSE IF Len(errors) > 0 THEN [errors |-> errors, display |-> "block"]
    ELSE [errorContainer EXCEPT !.display = "none"]

ValidateInputs ==
    /\ IsTM
    /\ errorContainer' = ErrorPanel(ValidationErrors(form))
    /\ step' = StepReturning("validateInputs", [errors |-> ValidationErrors(form)],
                             IsValid(form))
    /\ UNCHANGED <<utilsVars, hostGlobal, connVars, mirrorVars, dom, form, sections, testButton,
                   connectionStatus, saveButton, timers, ready>>

\* the contents of the validated fields
ChannelValues == { << >>, << "a", "b", "c", "d" >>, << "@", "a", "b", "c", "d" >>,
                   << "a", "b" >>, << "a", "b", "-", "d" >> }
TokenValues == { << >>, << "t", "k" >>, << " " >> }
IdValues == { << >>, << "0" >>, << "1", "2", "3" >>, << " ", "1", "2", "3" >>,
              << "1", "2", "3", " " >>, << "1", "2", "a" >>, << "1", " ", "2" >>,
              << " " >> }

ValidatedInputs == {"twitchChannel", "twitchToken", "twitchBroadcasterId", "twitchModeratorId"}

\* the pages: each validated input and the error panel present or not, the rest
\* present
ValidatePages ==
    { ElementIds \ absent : absent \in SUBSET (ValidatedInputs \cup {"errorContainer"}) }

ValidateForms(page) ==
    { [id \in InputIds |->
          IF id \notin page THEN << >>
          ELSE IF id = "twitchChannel" THEN c
          ELSE IF id = "twitchToken" THEN t
          ELSE IF id = "twitchBroadcasterId" THEN b
          ELSE IF id = "twitchModeratorId" THEN mo
          ELSE << >>] :
        c \in ChannelValues, t \in TokenValues, b \in IdValues, mo \in IdValues }

InitValidate ==
    /\ InitAdapter(TwitchModPropertyInspector)
    /\ \E page \in ValidatePages : \E f \in ValidateForms(page) : InitPage(page, f)

NextValidate ==
    \/ \E u \in UUIDs : Connect(u, RegisterEventOf(cls), "com.twitchmod.streamdeck.shieldmode")
    \/ SocketOpen
    \/ SocketClose
    \/ ValidateInputs

SpecValidate == InitValidate /\ [][NextValidate]_vars

\* the errors the last validateInputs collected
CollectedErrors == { step.frame["errors"][i] : i \in 1..Len(step.frame["errors"]) }

\* one or more decimal digits
IsDigits(s) ==
    /\ Len(s) >= 1
    /\ \A i \in 1..Len(s) : s[i] \in {"0","1","2","3","4","5","6","7","8","9"}

\* C11 as stated: validateInputs adds no 'must be numeric' error for a
\* broadcaster ID or moderator ID field exactly when the input with its
\* surrounding white space trimmed consists of one or more decimal digits.
C11_IdAcceptedIffTrimmedDigits ==
    step.op = "validateInputs" =>
        \A id \in {"twitchBroadcasterId", "twitchModeratorId"} \cap dom :
            (ErrorOf(id) \notin CollectedErrors)
                <=> IsDigits(DropLeadingSpace(DropTrailingSpace(form[id])))

\* what the code does for C11: the field is accepted exactly when its value,
\* untrimmed, consists of one or more decimal digits.
C11_IdAcceptedIffRawDigits ==
    step.op = "validateInputs" =>
        \A id \in {"twitchBroadcasterId", "twitchModeratorId"} \cap dom :
            (ErrorOf(id) \notin CollectedErrors) <=> IsDigits(form[id])


\* C19: validateInputs is non-fatal and reports through its list: it returns
\* false exactly when it collected at least one error, the error panel of the
\* page is displayed exactly when the list is not empty, it raises no error, and
\* it changes neither the socket and what was sent, nor the local settings, nor
\* the values of the form.
C19_CollectsAndNeverFails ==
    [][ step'.op = "validateInputs" =>
          /\ (step'.returned = << FALSE >>) <=> (Len(step'.frame["errors"]) >= 1)
          /\ step'.returned \in { << TRUE >>, << FALSE >> }
          /\ "errorContainer" \in dom =>
                /\ (errorContainer'.display = "block") <=> (Len(step'.frame["errors"]) >= 1)
                /\ errorContainer'.display = "block" =>
                      errorContainer'.errors = step'.frame["errors"]
          /\ step'.error = NoError
          /\ UNCHANGED <<websocket, sockets, sent, settings, globalSettings, form>> ]_vars

\* validateInputs ran over the open socket on a page with every element, an
\* empty token and a broadcaster ID that is not numeric: two errors, shown in
\* the panel, and false returned
C19_Witness ==
    /\ step.op = "validateInputs"
    /\ IsOpen
    /\ dom = ElementIds
    /\ step.returned = << FALSE >>
    /\ step.frame["errors"] = << "OAuth token is required", "Broadcaster ID must be numeric" >>
    /\ errorContainer.errors = step.frame["errors"]
    /\ errorContainer.display = "block"


(***************************************************************************)
(* The user's edits and the save button: the page is loaded, the user      *)
(* commits edits of the inputs and clicks #saveButton; the confirmation    *)
(* timers run.                                                             *)
(***************************************************************************)
\* the fields the user edits and the value typed into each
EditedActionInputs == {"shieldDuration", "slowDelay"}
EditedGlobalInputs == {"twitchChannel"}
EditedActionValues == { << "5" >> }
EditedGlobalValues == { << "@", "x" >> }

InitEdit ==
    /\ InitAdapter(TwitchModPropertyInspector)
    /\ InitPage(ElementIds, [id \in InputIds |-> << >>])

NextEdit ==
    \/ Connect("uuid-A", RegisterEventOf(cls), "com.twitchmod.streamdeck.shieldmode")
    \/ SocketOpen
    \/ SocketClose
    \/ OnDocumentReady
    \/ \E id \in EditedActionInputs, v \in EditedActionValues : ChangeActionInput(id, v)
    \/ \E id \in EditedGlobalInputs, v \in EditedGlobalValues : ChangeGlobalInput(id, v)
    \/ SaveButtonClick
    \/ TimerFire
    \/ \E d \in TickSteps : Tick(d)

SpecEdit == InitEdit /\ [][NextEdit]_vars

\* the envelopes the step added to the connection
Added == SubSeq(sent', Len(sent) + 1, Len(sent'))

IsSetSettings(e) ==
    e.event = "setSettings" /\ e.context = uuid /\ e.payload = settings'
IsSetGlobalSettings(e) ==
    e.event = "setGlobalSettings" /\ e.context = uuid /\ e.payload = globalSettings'
IsSaveRelay(e) ==
    /\ e.event = "sendToPlugin"
    /\ e.payload["action"] = "saveGlobalSettings"

\* C12 as stated: with the socket open, every change of a settings field and
\* every save click pushes a setSettings envelope, a setGlobalSettings envelope
\* and a sendToPlugin relay tagged 'saveGlobalSettings'.
C12_EveryEditPushesAll ==
    [][ (IsOpen /\ step'.op \in {"change:saveSettings", "change:saveGlobalSettings",
                                 "click:saveButton"}) =>
            /\ \E i \in 1..Len(Added) : IsSetSettings(Added[i])
            /\ \E i \in 1..Len(Added) : IsSetGlobalSettings(Added[i])
            /\ \E i \in 1..Len(Added) : IsSaveRelay(Added[i]) ]_vars

\* C12 amended: with the socket open, a change of an action field (shieldDuration,
\* followDuration, slowDelay) pushes one setSettings envelope and nothing else;
\* a change of a global field pushes one setGlobalSettings envelope and one
\* sendToPlugin relay tagged 'saveGlobalSettings' and no setSettings; a save
\* click pushes the setGlobalSettings envelope, the relay and the setSettings
\* envelope.
C12_EditPushesItsKind ==
    [][ IsOpen =>
          /\ step'.op = "change:saveSettings" =>
                /\ Len(Added) = 1
                /\ IsSetSettings(Added[1])
          /\ step'.op = "change:saveGlobalSettings" =>
                /\ Len(Added) = 2
                /\ IsSetGlobalSettings(Added[1])
                /\ IsSaveRelay(Added[2])
          /\ step'.op = "click:saveButton" =>
                /\ Len(Added) = 3
                /\ IsSetGlobalSettings(Added[1])
                /\ IsSaveRelay(Added[2])
                /\ IsSetSettings(Added[3]) ]_vars

\* over the open socket an action field was edited and then the save button
\* was clicked
C12_Witness ==
    /\ IsOpen
    /\ step.op = "click:saveButton"
    /\ Len(sent) = 7
    /\ sent[4].event = "setSettings"
    /\ sent[5].event = "setGlobalSettings"
    /\ sent[6].event = "sendToPlugin"
    /\ sent[7].event = "setSettings"
    /\ sent[7].payload = [shieldDuration |-> 5, followDuration |-> 10, slowDelay |-> 3]

\* a confirmation timer is pending
SavePending == \E i \in 1..Len(timers) : timers[i].kind = "save"

\* C26: after any clicks on the save button, once every pending 2000 ms
\* confirmation timer has fired the button shows its original label and does
\* not carry the 'saved' class.
C26_LabelRestored ==
    ~SavePending =>
        /\ saveButton.textContent = "Save Settings"
        /\ ~saveButton.saved


(***************************************************************************)
(* Saving again: saveSettings() and saveGlobalSettings() called any number *)
(* of times over a form the user does not touch, the socket open or not.   *)
(***************************************************************************)
ResaveChannels == { << >>, << "@", "x" >>, << " ", "x", " " >> }
ResaveTokens == { << >>, << " ", "t", "k" >> }

ResaveForms ==
    { [id \in InputIds |->
          IF id = "shieldDuration" THEN n
          ELSE IF id = "twitchChannel" THEN c
          ELSE IF id = "twitchToken" THEN t
          ELSE << >>] :
        n \in NumericInputs, c \in ResaveChannels, t \in ResaveTokens }

InitResave ==
    /\ InitAdapter(TwitchModPropertyInspector)
    /\ \E f \in ResaveForms : InitPage(ElementIds, f)

NextResave ==
    \/ Connect("uuid-A", RegisterEventOf(cls), "com.twitchmod.streamdeck.shieldmode")
    \/ SocketOpen
    \/ SocketClose
    \/ SaveSettings
    \/ SaveGlobalSettings

SpecResave == InitResave /\ [][NextResave]_vars

\* the last k envelopes of a log
LastOf(log, k) == SubSeq(log, Len(log) - k + 1, Len(log))

\* C13: of two consecutive saveSettings calls, or two consecutive
\* saveGlobalSettings calls, the second sends envelopes identical to those of
\* the first and leaves the local settings, the form and every other part of the
\* state as the first left them; the mapping carried in the setSettings /
\* setGlobalSettings envelope is the mapping stored locally.
C13_SaveIdempotent ==
    [][ /\ (step.op = "saveSettings" /\ step'.op = "saveSettings") =>
              /\ UNCHANGED <<utilsVars, hostGlobal, cls, websocket, uuid,
                             registerEventName, actionInfo,
                             sockets, tmVars>>
              /\ step' = step
              /\ sent' = IF IsOpen THEN sent \o LastOf(sent, 1) ELSE sent
        /\ (step.op = "saveGlobalSettings" /\ step'.op = "saveGlobalSettings") =>
              /\ UNCHANGED <<utilsVars, hostGlobal, cls, websocket, uuid,
                             registerEventName, actionInfo,
                             sockets, tmVars>>
              /\ step' = step
              /\ sent' = IF IsOpen THEN sent \o LastOf(sent, 2) ELSE sent
        /\ (IsOpen /\ step'.op = "saveSettings") =>
              /\ sent'[Len(sent')].event = "setSettings"
              /\ sent'[Len(sent')].payload = settings'
        /\ (IsOpen /\ step'.op = "saveGlobalSettings") =>
              /\ sent'[Len(sent') - 1].event = "setGlobalSettings"
              /\ sent'[Len(sent') - 1].payload = globalSettings' ]_vars

\* saveGlobalSettings ran twice in a row over the open socket, on a form whose
\* channel holds an '@': the log ends with the same two envelopes twice
C13_Witness ==
    /\ IsOpen
    /\ step.op = "saveGlobalSettings"
    /\ form["twitchChannel"] = << "@", "x" >>
    /\ Len(sent) = 7
    /\ LastOf(sent, 2) = SubSeq(sent, 4, 5)
    /\ sent[6].payload["twitchChannel"] = << "x" >>

\* C32: a saveGlobalSettings call sends the setGlobalSettings envelope and the
\* saveGlobalSettings relay both or neither, the envelope first, and the relay's
\* payload is the envelope's payload, value for value, plus action
\* 'saveGlobalSettings'.
C32_HostAndPluginGetTheSame ==
    [][ step'.op = "saveGlobalSettings" =>
          \/ Added = << >>
          \/ /\ Len(Added) = 2
             /\ Added[1].event = "setGlobalSettings"
             /\ Added[2].event = "sendToPlugin"
             /\ DOMAIN Added[2].payload = DOMAIN Added[1].payload \cup {"action"}
             /\ "action" \notin DOMAIN Added[1].payload
             /\ Added[2].payload["action"] = "saveGlobalSettings"
             /\ \A k \in DOMAIN Added[1].payload :
                    Added[2].payload[k] = Added[1].payload[k] ]_vars

\* a saveGlobalSettings call over the open socket sent a token to both
C32_Witness ==
    /\ step.op = "saveGlobalSettings"
    /\ IsOpen
    /\ Len(sent) >= 2
    /\ sent[Len(sent) - 1].event = "setGlobalSettings"
    /\ sent[Len(sent) - 1].payload["twitchToken"] = << "t", "k" >>
    /\ sent[Len(sent)].event = "sendToPlugin"
    /\ sent[Len(sent)].payload["twitchToken"] = << "t", "k" >>

\* C30: no setGlobalSettings envelope and no saveGlobalSettings relay sent
\* carries a value the validation rules reject: each twitchChannel sent is 4 to
\* 25 characters of [a-zA-Z0-9_], each twitchBroadcasterId and twitchModeratorId
\* sent is one or more digits, and each twitchToken sent is not empty.
C30_OnlyValidatedValuesSent ==
    \A i \in 1..Len(sent) :
        (sent[i].event = "setGlobalSettings" \/ IsSaveRelay(sent[i])) =>
            LET p == sent[i].payload
            IN  /\ Has(p, "twitchChannel") => IsUsername(p["twitchChannel"])
                /\ Has(p, "twitchBroadcasterId") => IsDigits(p["twitchBroadcasterId"])
                /\ Has(p, "twitchModeratorId") => IsDigits(p["twitchModeratorId"])
                /\ Has(p, "twitchToken") => Len(p["twitchToken"]) > 0


(***************************************************************************)
(* The outbound calls with a caller that may leave the context out: the    *)
(* helpers of StreamDeckPlugin take the context as an argument.            *)
(***************************************************************************)
NextContext ==
    \/ \E u \in UUIDs, a \in {"com.twitchmod.streamdeck.shieldmode", Null} :
          Connect(u, RegisterEventOf(cls), a)
    \/ SocketOpen
    \/ SocketClose
    \/ PluginCalls(Contexts \cup {Undefined})
    \/ PICallerStep
    \/ TMCallerStep

SpecContext == Init /\ [][NextContext]_vars

OwnContextEvents ==
    {"setSettings", "getSettings", "setGlobalSettings", "getGlobalSettings", "sendToPlugin"}
PluginOwnContextEvents == {"setGlobalSettings", "getGlobalSettings"}
PluginContextEvents ==
    {"setSettings", "getSettings", "setTitle", "setImage", "setState", "showAlert",
     "showOk", "sendToPropertyInspector"}

\* C14 (the Property Inspector adapters and the plugin's global settings): each
\* setSettings, getSettings, setGlobalSettings, getGlobalSettings and sendToPlugin
\* envelope a Property Inspector adapter sent has the UUID it registered with as
\* its context, and so has each setGlobalSettings / getGlobalSettings envelope
\* StreamDeckPlugin sent.
C14_OwnContext ==
    \A i \in 1..Len(sent) :
        /\ (cls # StreamDeckPlugin /\ sent[i].event \in OwnContextEvents) =>
              (Has(sent[i], "context") /\ sent[i].context = sent[1].uuid)
        /\ (cls = StreamDeckPlugin /\ sent[i].event \in PluginOwnContextEvents) =>
              (Has(sent[i], "context") /\ sent[i].context = sent[1].uuid)

\* C14 as stated: every context-scoped envelope sent carries a context: the
\* adapter's own UUID where the adapter supplies it, and some context on every
\* setSettings, getSettings, setTitle, setImage, setState, showAlert, showOk and
\* sendToPropertyInspector envelope StreamDeckPlugin sent.
C14_ContextOnEveryScopedSend ==
    /\ C14_OwnContext
    /\ \A i \in 1..Len(sent) :
          (cls = StreamDeckPlugin /\ sent[i].event \in PluginContextEvents) =>
              Has(sent[i], "context")


(***************************************************************************)
(* Two instances over the host's global settings: this Property Inspector  *)
(* and another instance of the plugin (a second Property Inspector or the  *)
(* plugin), each saving into the one mapping the host keeps.  The host     *)
(* hands its mapping to this instance when it answers getGlobalSettings.   *)
(***************************************************************************)
SharedKeys == {"twitchChannel", "twitchToken"}
SharedValues == { << "a" >>, << "b" >> }

\* the other instance's setGlobalSettings reached the host: key k now holds v
OtherInstanceSaves(k, v) ==
    /\ IsTM
    /\ IsOpen
    /\ ~(Has(hostGlobal, k) /\ hostGlobal[k] = v)
    /\ hostGlobal' = [id \in DOMAIN hostGlobal \cup {k} |-> IF id = k THEN v ELSE hostGlobal[id]]
    /\ step' = Step("otherInstanceSave", [key |-> k, value |-> v], << >>, << >>, NoError)
    /\ UNCHANGED <<utilsVars, connVars, tmVars>>

\* the host's didReceiveGlobalSettings frame carries the mapping it holds
HostSendsGlobalSettings ==
    TM_onmessage(Frame(<< "didReceiveGlobalSettings" >>, << >>, << [settings |-> hostGlobal] >>))

InitShared ==
    /\ InitAdapter(TwitchModPropertyInspector)
    /\ InitPage(ElementIds, [id \in InputIds |-> << >>])

NextShared ==
    \/ Connect("uuid-A", RegisterEventOf(cls), "com.twitchmod.streamdeck.shieldmode")
    \/ SocketOpen
    \/ SocketClose
    \/ \E k \in SharedKeys, v \in SharedValues : OtherInstanceSaves(k, v)
    \/ HostSendsGlobalSettings
    \/ SaveGlobalSettings

SpecShared == InitShared /\ [][NextShared]_vars

\* C15: a save by this instance never reverts a field another instance changed:
\* when saveGlobalSettings runs over the open socket right after the other
\* instance's save reached the host, the host still holds the other instance's
\* value for the field it changed.
C15_NoLostUpdate ==
    [][ (step.op = "otherInstanceSave" /\ step'.op = "saveGlobalSettings" /\ IsOpen) =>
            /\ Has(hostGlobal', step.frame.key)
            /\ hostGlobal'[step.frame.key] = step.frame.value ]_vars


(***************************************************************************)
(* Settings arriving and saved straight back: didReceiveSettings and       *)
(* didReceiveGlobalSettings frames carrying the host's mapping, followed   *)
(* by saveSettings() / saveGlobalSettings() with no edit in between.       *)
(***************************************************************************)
ReceivedSettings ==
    { [shieldDuration |-> 300, followDuration |-> 10, slowDelay |-> 3],
      [shieldDuration |-> 60, followDuration |-> 0, slowDelay |-> 5] }
ReceivedGlobalSettings ==
    { [twitchChannel |-> << "x" >>, twitchToken |-> << "t", "k" >>,
       twitchBroadcasterId |-> << "1" >>, twitchModeratorId |-> << "2" >>,
       twitchClientId |-> << "c" >>],
      [twitchChannel |-> << "x" >>, twitchToken |-> << >>,
       twitchBroadcasterId |-> << "1" >>, twitchModeratorId |-> << "2" >>,
       twitchClientId |-> << "c" >>] }
ReceivedFrames ==
    { Frame(<< "didReceiveSettings" >>, << >>, << [settings |-> s] >>) : s \in ReceivedSettings }
    \cup { Frame(<< "didReceiveGlobalSettings" >>, << >>, << [settings |-> s] >>) :
             s \in ReceivedGlobalSettings }
    \cup { Frame(<< e >>, << >>, p) :
             e \in {"didReceiveSettings", "didReceiveGlobalSettings"},
             p \in {<< >>, << EmptyObj >>} }

InitReceive ==
    /\ InitAdapter(TwitchModPropertyInspector)
    /\ InitPage(ElementIds, [id \in InputIds |-> << >>])

NextReceive ==
    \/ Connect("uuid-A", RegisterEventOf(cls), "com.twitchmod.streamdeck.followersonly")
    \/ SocketOpen
    \/ SocketClose
    \/ \E data \in ReceivedFrames : TM_onmessage(data)
    \/ SaveSettings
    \/ SaveGlobalSettings

SpecReceive == InitReceive /\ [][NextReceive]_vars

\* the value an input shows for a value of the host
Shown(id, v) == IF id \in ActionInputs THEN NumberToString(v) ELSE v

\* the step took a frame of this event, with a settings mapping
Received(s, event) ==
    /\ s.op = "onmessage"
    /\ Has(s.frame, "event") /\ s.frame.event = event
    /\ Has(PayloadOf(s.frame), "settings")

\* C16: after the handler of didReceiveSettings / didReceiveGlobalSettings ran,
\* every form field of the received kind shows the value the host holds for its
\* key, and a saveSettings / saveGlobalSettings right after it, with no edit,
\* sends back exactly the received mapping.
C16_PopulatedAndSavedBack ==
    [][ /\ Received(step', "didReceiveSettings") =>
              \A id \in ActionInputs \cap DOMAIN step'.frame.payload.settings :
                  form'[id] = Shown(id, step'.frame.payload.settings[id])
        /\ Received(step', "didReceiveGlobalSettings") =>
              \A id \in GlobalInputs \cap DOMAIN step'.frame.payload.settings :
                  form'[id] = Shown(id, step'.frame.payload.settings[id])
        /\ (Received(step, "didReceiveSettings") /\ step'.op = "saveSettings" /\ IsOpen) =>
              sent'[Len(sent')].payload = step.frame.payload.settings
        /\ (Received(step, "didReceiveGlobalSettings") /\ step'.op = "saveGlobalSettings"
            /\ IsOpen) =>
              sent'[Len(sent') - 1].payload = step.frame.payload.settings ]_vars


\* the settings mapping of a frame, the empty mapping when it has none
SettingsOf(data) ==
    IF Has(PayloadOf(data), "settings") THEN PayloadOf(data)["settings"] ELSE EmptyObj

\* C27: the handler of every didReceiveSettings / didReceiveGlobalSettings
\* frame, with or without a payload and with or without a settings field in it,
\* raises no error and leaves the local settings (the global settings) equal to
\* the mapping received, the empty mapping when none was.
C27_ReceiveNeverRaises ==
    [][ (step'.op = "onmessage" /\ Has(step'.frame, "event")) =>
          /\ step'.frame.event = "didReceiveSettings" =>
                /\ step'.error = NoError
                /\ settings' = SettingsOf(step'.frame)
          /\ step'.frame.event = "didReceiveGlobalSettings" =>
                /\ step'.error = NoError
                /\ globalSettings' = SettingsOf(step'.frame) ]_vars


\* the payloads of the envelopes of an event among those the step sent
PayloadsSent(event) ==
    { Added[i].payload : i \in { j \in 1..Len(Added) : Added[j].event = event } }

\* this step handled a frame of the event
Handled(event) ==
    /\ step'.op = "onmessage"
    /\ Has(step'.frame, "event")
    /\ step'.frame.event = event

\* C28: the local settings equal the payload of the latest setSettings envelope
\* sent or didReceiveSettings frame received, and the local global settings that
\* of the latest setGlobalSettings / didReceiveGlobalSettings: a step changes
\* the local copy only by sending or receiving such an envelope, to the mapping
\* it carries; a save with the socket not open leaves the copy as it was.
C28_MirrorOfHost ==
    [][ /\ Handled("didReceiveSettings") => settings' = SettingsOf(step'.frame)
        /\ PayloadsSent("setSettings") # {} => PayloadsSent("setSettings") = {settings'}
        /\ (~Handled("didReceiveSettings") /\ PayloadsSent("setSettings") = {}) =>
              settings' = settings
        /\ Handled("didReceiveGlobalSettings") => globalSettings' = SettingsOf(step'.frame)
        /\ PayloadsSent("setGlobalSettings") # {} =>
              PayloadsSent("setGlobalSettings") = {globalSettings'}
        /\ (~Handled("didReceiveGlobalSettings") /\ PayloadsSent("setGlobalSettings") = {}) =>
              globalSettings' = globalSettings ]_vars


(***************************************************************************)
(* The keys and the types of what the Property Inspector saves.            *)
(***************************************************************************)
\* the characters form values are made of
Chars == Lower \cup Upper \cup Digit \cup WhiteSpace \cup {"_", "@", "-", "+"}

\* C17: every setSettings payload TwitchModPropertyInspector sent has only keys
\* from {shieldDuration, followDuration, slowDelay}, each with an integer value,
\* and every setGlobalSettings payload it sent has only keys from {twitchChannel,
\* twitchToken, twitchBroadcasterId, twitchModeratorId, twitchClientId}, each with
\* a string value.
C17_FixedKeys ==
    \A i \in 1..Len(sent) :
        /\ sent[i].event = "setSettings" =>
              /\ DOMAIN sent[i].payload \subseteq {"shieldDuration", "followDuration", "slowDelay"}
              /\ \A k \in DOMAIN sent[i].payload : sent[i].payload[k] \in Int
        /\ sent[i].event = "setGlobalSettings" =>
              /\ DOMAIN sent[i].payload \subseteq
                    {"twitchChannel", "twitchToken", "twitchBroadcasterId",
                     "twitchModeratorId", "twitchClientId"}
              /\ \A k \in DOMAIN sent[i].payload : sent[i].payload[k] \in Seq(Chars)

\* both kinds were saved over the open socket: a negative duration typed into
\* #shieldDuration, and a channel typed with an '@'
C17_Witness ==
    /\ IsOpen
    /\ \E i \in 1..Len(sent) :
          /\ sent[i].event = "setSettings"
          /\ sent[i].payload = [shieldDuration |-> -4, followDuration |-> 10, slowDelay |-> 3]
    /\ \E i \in 1..Len(sent) :
          /\ sent[i].event = "setGlobalSettings"
          /\ sent[i].payload["twitchChannel"] = << "x" >>
          /\ DOMAIN sent[i].payload =
                {"twitchChannel", "twitchToken", "twitchBroadcasterId",
                 "twitchModeratorId", "twitchClientId"}


(***************************************************************************)
(* The documented ranges of the three durations (README, Customization),   *)
(* and saveSettings() over values the user entered inside them.            *)
(***************************************************************************)
ShieldDurationMin == 1
ShieldDurationMax == 1800
FollowDurationMin == 0
FollowDurationMax == 129600
SlowDelayMin == 1
SlowDelayMax == 120

RangeOf(id) ==
    CASE id = "shieldDuration" -> ShieldDurationMin..ShieldDurationMax
      [] id = "followDuration" -> FollowDurationMin..FollowDurationMax
      [] id = "slowDelay" -> SlowDelayMin..SlowDelayMax

\* the values entered: the ends of each range, their neighbours and the default
EnteredValues(id) ==
    CASE id = "shieldDuration" ->
            {ShieldDurationMin, ShieldDurationMin + 1, ShieldDurationDefault, ShieldDurationMax}
      [] id = "followDuration" ->
            {FollowDurationMin, FollowDurationMin + 1, FollowDurationDefault, FollowDurationMax}
      [] id = "slowDelay" ->
            {SlowDelayMin, SlowDelayMin + 1, SlowDelayDefault, SlowDelayMax}

RangeForms ==
    { [id \in InputIds |->
          IF id = "shieldDuration" THEN NumberToString(a)
          ELSE IF id = "followDuration" THEN NumberToString(b)
          ELSE IF id = "slowDelay" THEN NumberToString(c)
          ELSE << >>] :
        a \in EnteredValues("shieldDuration"), b \in EnteredValues("followDuration"),
        c \in EnteredValues("slowDelay") }

InitRange ==
    /\ InitAdapter(TwitchModPropertyInspector)
    /\ \E f \in RangeForms : InitPage(ElementIds, f)

NextRange ==
    \/ Connect("uuid-A", RegisterEventOf(cls), "com.twitchmod.streamdeck.followersonly")
    \/ SocketOpen
    \/ SocketClose
    \/ SaveSettings

SpecRange == InitRange /\ [][NextRange]_vars

\* C18: every integer inside the documented range of its field that the user
\* entered is saved unchanged by saveSettings: the setSettings payload carries
\* exactly the entered integer.
C18_InRangeSavedUnchanged ==
    (step.op = "saveSettings" /\ IsOpen) =>
        \A id \in ActionInputs : \A n \in EnteredValues(id) :
            (n \in RangeOf(id) /\ form[id] = NumberToString(n)) =>
                /\ sent[Len(sent)].event = "setSettings"
                /\ Has(SavedPayload, id)
                /\ SavedPayload[id] = n


(***************************************************************************)
(* Utils.createRateLimiter(maxRequests, timeWindow) and the function       *)
(* canMakeRequest it returns, called at the times of a clock that never    *)
(* goes back.                                                              *)
(***************************************************************************)
MaxRequestsBound == 2
MaxTimeWindow == 2
MaxClock == 7
MaxCalls == 4

\* while (requests.length > 0 && requests[0] < cutoff) requests.shift()
\* (a variant that also removes the request made at the cutoff, to test the
\* properties against)
RECURSIVE Pruned_atCutoff(_, _)
Pruned_atCutoff(requests, cutoff) ==
    IF Len(requests) > 0 /\ requests[1] <= cutoff
    THEN Pruned_atCutoff(Tail(requests), cutoff)
    ELSE requests
RECURSIVE Pruned(_, _)
Pruned(requests, cutoff) ==
    IF Len(requests) > 0 /\ requests[1] < cutoff
    THEN Pruned(Tail(requests), cutoff)
    ELSE requests

\* createRateLimiter(maxRequests, timeWindow): const requests = [].  calls
\* (history, not read by the code): the time and the result of each call made
CreateRateLimiter(maxRequests, timeWindow) ==
    /\ ~limiter.made
    /\ limiter' = [made |-> TRUE, maxRequests |-> maxRequests, timeWindow |-> timeWindow,
                   requests |-> << >>, calls |-> << >>]
    /\ step' = Step("createRateLimiter",
                    [maxRequests |-> maxRequests, timeWindow |-> timeWindow],
                    << >>, << >>, NoError)
    /\ UNCHANGED <<clock, retry, debounced, throttled, build, hostGlobal, connVars,
                   tmVars>>

\* canMakeRequest()
CanMakeRequest ==
    /\ limiter.made
    /\ Len(limiter.calls) < MaxCalls
    /\ LET now == clock
           cutoff == now - limiter.timeWindow
           kept == Pruned(limiter.requests, cutoff)
           allowed == Len(kept) < limiter.maxRequests
       IN  /\ limiter' = [limiter EXCEPT
                             !.requests = IF allowed THEN Append(kept, now) ELSE kept,
                             !.calls = Append(@, [t |-> now, result |-> allowed])]
           /\ step' = StepReturning("canMakeRequest", EmptyObj, allowed)
    /\ UNCHANGED <<clock, retry, debounced, throttled, build, hostGlobal, connVars,
                   tmVars>>

\* time passes
ClockAdvance(d) ==
    /\ clock + d <= MaxClock
    /\ clock' = clock + d
    /\ step' = Step("clock", EmptyObj, << >>, << >>, NoError)
    /\ UNCHANGED <<limiter, retry, debounced, throttled, build, hostGlobal, connVars,
                   tmVars>>

InitLimiter ==
    /\ InitAdapter(StreamDeckPlugin)
    /\ InitPage(ElementIds, [id \in InputIds |-> << >>])

NextLimiter ==
    \/ \E maxRequests \in 0..MaxRequestsBound, timeWindow \in 0..MaxTimeWindow :
          CreateRateLimiter(maxRequests, timeWindow)
    \/ CanMakeRequest
    \/ \E d \in 1..2 : ClockAdvance(d)

SpecLimiter == InitLimiter /\ [][NextLimiter]_vars

\* the calls of the history that returned true at a time from lo to hi
AllowedIn(calls, lo, hi) ==
    { i \in 1..Len(calls) : calls[i].result /\ calls[i].t >= lo /\ calls[i].t <= hi }

\* C20: a call of canMakeRequest at time t returns true exactly when fewer than
\* maxRequests earlier calls returned true at times in [t - timeWindow, t]; a
\* call that returned false adds nothing to the requests kept; and the calls that
\* returned true at times within any one interval of timeWindow ms number at
\* most maxRequests.
C20_SlidingWindow ==
    [][ step'.op = "canMakeRequest" =>
          /\ step'.returned =
                << Cardinality(AllowedIn(limiter.calls, clock - limiter.timeWindow, clock))
                      < limiter.maxRequests >>
          /\ step'.returned = << FALSE >> =>
                /\ Len(limiter'.requests) <= Len(limiter.requests)
                /\ \A i \in 1..Len(limiter'.requests) :
                      \E j \in 1..Len(limiter.requests) :
                          limiter'.requests[i] = limiter.requests[j]
          /\ \A a \in 0..MaxClock :
                Cardinality(AllowedIn(limiter'.calls, a, a + limiter.timeWindow))
                   <= limiter.maxRequests ]_vars

\* a limiter of one request per 2 ms allowed a call at 0, denied calls at 0 and
\* at 2, and allowed the call at 3
C20_Witness ==
    /\ limiter.made
    /\ limiter.maxRequests = 1 /\ limiter.timeWindow = 2
    /\ limiter.calls = << [t |-> 0, result |-> TRUE], [t |-> 0, result |-> FALSE],
                          [t |-> 2, result |-> FALSE], [t |-> 3, result |-> TRUE] >>
    /\ limiter.requests = << 3 >>


(***************************************************************************)
(* Utils.retryWithBackoff(fn, maxRetries, delay): one call of it, with an  *)
(* fn whose every attempt settles either way.  The result of attempt k is  *)
(* [attempt |-> k, ok |-> TRUE], its error [attempt |-> k, ok |-> FALSE].  *)
(***************************************************************************)
MaxRetriesBound == 4
MaxDelay == 1

\* if (i === maxRetries - 1) throw error
\* (a variant that compares with maxRetries, to test the properties against)
IsLastAttempt_late(i, maxRetries) == i = maxRetries
IsLastAttempt(i, maxRetries) == i = maxRetries - 1

\* delay * Math.pow(2, i)
\* (a variant that grows by delay each time, to test the properties against)
Backoff_linear(delay, i) == delay * (i + 1)
Backoff(delay, i) == delay * 2^i

\* the loop at its test i < maxRetries: the next attempt starts, or the loop
\* ends and the promise resolves with undefined.  attempts and results
\* (history, not read by the code): the attempts started and how each settled
LoopTest(r) ==
    IF r.i < r.maxRetries
    THEN [r EXCEPT !.phase = "pending", !.attempts = @ + 1]
    ELSE [r EXCEPT !.phase = "resolved", !.outcome = << Undefined >>]

RetryWithBackoff(maxRetries, delay) ==
    /\ retry.phase = "idle"
    /\ retry' = LoopTest([retry EXCEPT !.maxRetries = maxRetries, !.delay = delay, !.i = 0])
    /\ step' = Step("retryWithBackoff", [maxRetries |-> maxRetries, delay |-> delay],
                    << >>, << >>, NoError)
    /\ UNCHANGED <<clock, limiter, debounced, throttled, build, hostGlobal, connVars,
                   tmVars>>

\* the promise of fn() settles: return await fn(), or the catch block
FnSettles(ok) ==
    /\ retry.phase = "pending"
    /\ LET result == [attempt |-> retry.attempts, ok |-> ok]
           settled == [retry EXCEPT !.results = Append(@, result)]
       IN  retry' =
              IF ok THEN [settled EXCEPT !.phase = "resolved", !.outcome = << result >>]
              ELSE IF IsLastAttempt(retry.i, retry.maxRetries)
              THEN [settled EXCEPT !.phase = "rejected", !.outcome = << result >>]
              ELSE [settled EXCEPT !.phase = "sleeping",
                                   !.wake = clock + Backoff(retry.delay, retry.i)]
    /\ step' = Step("fnSettles", [ok |-> ok], << >>, << >>, NoError)
    /\ UNCHANGED <<clock, limiter, debounced, throttled, build, hostGlobal, connVars,
                   tmVars>>

\* the timer of the backoff fires: i++ and the loop goes on
BackoffOver ==
    /\ retry.phase = "sleeping"
    /\ clock >= retry.wake
    /\ retry' = LoopTest([retry EXCEPT !.i = @ + 1])
    /\ step' = Step("backoffOver", EmptyObj, << >>, << >>, NoError)
    /\ UNCHANGED <<clock, limiter, debounced, throttled, build, hostGlobal, connVars,
                   tmVars>>

InitRetry ==
    /\ InitAdapter(StreamDeckPlugin)
    /\ InitPage(ElementIds, [id \in InputIds |-> << >>])

NextRetry ==
    \/ \E maxRetries \in -1..MaxRetriesBound, delay \in 0..MaxDelay :
          RetryWithBackoff(maxRetries, delay)
    \/ \E ok \in BOOLEAN : FnSettles(ok)
    \/ BackoffOver
    \/ \E d \in 1..2 : ClockAdvance(d)

SpecRetry == InitRetry /\ [][NextRetry]_vars

C33_BackoffBetweenAttempts ==
    [][ LET failedBefore == Len(retry.results)
            fails == step'.op = "fnSettles" /\ ~step'.frame["ok"]
        IN  /\ (retry'.phase = "sleeping" /\ retry.phase # "sleeping") =>
                  /\ fails
                  /\ failedBefore + 1 < retry.maxRetries
                  /\ retry'.wake = clock + retry.delay * 2^failedBefore
            /\ (fails /\ failedBefore + 1 < retry.maxRetries) => retry'.phase = "sleeping"
            /\ retry'.attempts > retry.attempts =>
                  \/ step'.op = "retryWithBackoff" /\ retry'.attempts = 1
                  \/ /\ retry.phase = "sleeping"
                     /\ clock >= retry.wake
                     /\ retry'.attempts = failedBefore + 1 ]_vars

\* with delay 1 and every attempt failing at once, the fourth attempt starts at
\* 7 ms, after waits of 1, 2 and 4 ms
C33_Witness ==
    /\ retry.phase = "pending"
    /\ retry.delay = 1
    /\ retry.attempts = 4
    /\ retry.wake = 7
    /\ clock = 7

\* C34: whatever maxRetries is, 0 and negative values included, the call invokes
\* fn at least once, and it resolves only with the result of an attempt of fn
\* that succeeded.
C34_ResolvesOnlyWithSuccess ==
    /\ retry.phase # "idle" => retry.attempts >= 1
    /\ retry.phase = "resolved" =>
          /\ Len(retry.results) >= 1
          /\ retry.results[Len(retry.results)].ok
          /\ retry.outcome = << retry.results[Len(retry.results)] >>


(***************************************************************************)
(* Utils.debounce(func, wait): the function it returns, called with one    *)
(* argument at any time, any number of times; its timers fire when due.    *)
(* Time is counted in ms from the calls, not from the clock.               *)
(***************************************************************************)
MaxWait == 3
MaxPending == 2
DebounceArgs == {"a", "b", "c"}

\* clearTimeout(id): the pending timer of that id, if any, is removed
\* (a variant that removes nothing, to test the properties against)
ClearTimeout_kept(pending, id) == pending
ClearTimeout(pending, id) == SelectSeq(pending, LAMBDA t : t.id # id)

\* the id setTimeout returns: one no pending timer has
FreeId(pending) ==
    CHOOSE n \in 1..(Len(pending) + 1) :
        /\ \A i \in 1..Len(pending) : pending[i].id # n
        /\ \A k \in 1..(n - 1) : \E i \in 1..Len(pending) : pending[i].id = k

\* debounce(func, wait): let timeout.  burst and sinceCall (history, not read by
\* the code): the arguments of the calls made since func last ran (the last two
\* of them), and the ms elapsed since the last call (counted up to wait)
Debounce(wait) ==
    /\ ~debounced.made
    /\ debounced' = [debounced EXCEPT !.made = TRUE, !.wait = wait]
    /\ step' = Step("debounce", [wait |-> wait], << >>, << >>, NoError)
    /\ UNCHANGED <<clock, limiter, retry, throttled, build, hostGlobal, connVars,
                   tmVars>>

\* executedFunction(...args): clearTimeout(timeout); timeout = setTimeout(later, wait)
ExecutedFunction(args) ==
    /\ debounced.made
    /\ LET cleared == ClearTimeout(debounced.timers, debounced.timeout)
           id == FreeId(cleared)
       IN  /\ Len(cleared) < MaxPending
           /\ debounced' =
                 [debounced EXCEPT
                     !.timers = Append(cleared, [id |-> id, remaining |-> debounced.wait,
                                                 args |-> args]),
                     !.timeout = id,
                     !.burst = IF Len(@) < 2 THEN Append(@, args) ELSE << @[2], args >>,
                     !.sinceCall = 0]
    /\ step' = Step("executedFunction", [args |-> args], << >>, << >>, NoError)
    /\ UNCHANGED <<clock, limiter, retry, throttled, build, hostGlobal, connVars,
                   tmVars>>

\* later(), the callback of the i-th pending timer, now due:
\* clearTimeout(timeout); func(...args)
Later(i) ==
    /\ debounced.made
    /\ i \in 1..Len(debounced.timers)
    /\ debounced.timers[i].remaining = 0
    /\ debounced' =
          [debounced EXCEPT
              !.timers = ClearTimeout(RemoveAt(debounced.timers, i), debounced.timeout),
              !.burst = << >>]
    /\ step' = Step("later", [args |-> debounced.timers[i].args, burst |-> debounced.burst],
                    << Call("func", [args |-> debounced.timers[i].args]) >>,
                    << >>, NoError)
    /\ UNCHANGED <<clock, limiter, retry, throttled, build, hostGlobal, connVars,
                   tmVars>>

\* one ms passes, no timer being due
DebounceTick ==
    /\ debounced.made
    /\ \A i \in 1..Len(debounced.timers) : debounced.timers[i].remaining >= 1
    /\ debounced' =
          [debounced EXCEPT
              !.timers = [i \in 1..Len(@) |-> [@[i] EXCEPT !.remaining = @ - 1]],
              !.sinceCall = IF @ < debounced.wait THEN @ + 1 ELSE @]
    /\ step' = Step("tick", EmptyObj, << >>, << >>, NoError)
    /\ UNCHANGED <<clock, limiter, retry, throttled, build, hostGlobal, connVars,
                   tmVars>>

InitDebounce ==
    /\ InitAdapter(StreamDeckPlugin)
    /\ InitPage(ElementIds, [id \in InputIds |-> << >>])

NextDebounce ==
    \/ \E wait \in 0..MaxWait : Debounce(wait)
    \/ \E args \in DebounceArgs : ExecutedFunction(args)
    \/ \E i \in 1..MaxPending : Later(i)
    \/ DebounceTick

\* timers fire when due and time goes on
SpecDebounce ==
    /\ InitDebounce
    /\ [][NextDebounce]_vars
    /\ WF_vars(\E i \in 1..MaxPending : Later(i))
    /\ WF_vars(DebounceTick)

\* func runs only wait ms after the most recent call, once for the calls made
\* since it last ran, with the arguments of the last of them
InvokedOncePerBurst ==
    [][ step'.op = "later" =>
          /\ debounced.sinceCall >= debounced.wait
          /\ Len(debounced.burst) >= 1
          /\ step'.frame.args = debounced.burst[Len(debounced.burst)]
          /\ step'.calls = << Call("func", [args |-> step'.frame.args]) >> ]_vars

\* C22 as stated: func is invoked only when wait ms have elapsed since the most
\* recent call, once per burst and with the arguments of the last call of the
\* burst, and every call is eventually followed by an invocation.
C22_EveryCallInvoked ==
    /\ InvokedOncePerBurst
    /\ (Len(debounced.burst) >= 1) ~> (step.op = "later")

\* C22 amended: func is invoked only when wait ms have elapsed since the most
\* recent call, once per burst and with the arguments of the last call of the
\* burst, and every call is eventually followed by an invocation unless calls
\* keep being made for ever.
C22_EveryCallInvokedUnlessCallsGoOn ==
    /\ InvokedOncePerBurst
    /\ \/ []<>(step.op = "executedFunction")
       \/ (Len(debounced.burst) >= 1) ~> (step.op = "later")

\* a burst of two calls, 'a' then 'b', ended in one invocation with 'b', 2 ms
\* after the second call
C22_Witness ==
    /\ step.op = "later"
    /\ step.frame.args = "b"
    /\ step.frame.burst = << "a", "b" >>
    /\ debounced.wait = 2
    /\ debounced.sinceCall = 2
    /\ debounced.timers = << >>
    /\ debounced.burst = << >>


(***************************************************************************)
(* Utils.throttle(func, limit): the function it returns, called with one   *)
(* argument at any time; its timer fires when due.                         *)
(***************************************************************************)
MaxLimit == 5

\* if (!inThrottle): the call goes through
\* (a variant that lets every call through, to test the properties against)
GoesThrough_always(inThrottle) == TRUE
GoesThrough(inThrottle) == ~inThrottle

\* throttle(func, limit): let inThrottle.  sinceInvoked and invoked (history, not
\* read by the code): the ms elapsed since func last ran (counted up to
\* limit + 1), and whether it ever ran
Throttle(limit) ==
    /\ ~throttled.made
    /\ throttled' = [throttled EXCEPT !.made = TRUE, !.limit = limit]
    /\ step' = Step("throttle", [limit |-> limit], << >>, << >>, NoError)
    /\ UNCHANGED <<clock, limiter, retry, debounced, build, hostGlobal, connVars,
                   tmVars>>

\* the returned function: func.apply(this, args); inThrottle = true;
\* setTimeout(() => inThrottle = false, limit), or nothing
ThrottledCall(args) ==
    /\ throttled.made
    /\ IF GoesThrough(throttled.inThrottle)
       THEN /\ Len(throttled.timers) < MaxPending
            /\ throttled' = [throttled EXCEPT !.inThrottle = TRUE,
                                              !.timers = Append(@, throttled.limit),
                                              !.sinceInvoked = 0,
                                              !.invoked = TRUE]
            /\ step' = Step("throttledCall", [args |-> args],
                            << Call("func", [args |-> args]) >>, << >>, NoError)
       ELSE /\ throttled' = throttled
            /\ step' = Step("throttledCall", [args |-> args], << >>, << >>, NoError)
    /\ UNCHANGED <<clock, limiter, retry, debounced, build, hostGlobal, connVars,
                   tmVars>>

\* the callback of the timer, now due: inThrottle = false
ThrottleRelease ==
    /\ throttled.made
    /\ Len(throttled.timers) >= 1
    /\ throttled.timers[1] = 0
    /\ throttled' = [throttled EXCEPT !.inThrottle = FALSE, !.timers = Tail(@)]
    /\ step' = Step("release", EmptyObj, << >>, << >>, NoError)
    /\ UNCHANGED <<clock, limiter, retry, debounced, build, hostGlobal, connVars,
                   tmVars>>

\* one ms passes, no timer being due
ThrottleTick ==
    /\ throttled.made
    /\ \A i \in 1..Len(throttled.timers) : throttled.timers[i] >= 1
    /\ throttled' =
          [throttled EXCEPT
              !.timers = [i \in 1..Len(@) |-> @[i] - 1],
              !.sinceInvoked = IF @ <= throttled.limit THEN @ + 1 ELSE @]
    /\ step' = Step("tick", EmptyObj, << >>, << >>, NoError)
    /\ UNCHANGED <<clock, limiter, retry, debounced, build, hostGlobal, connVars,
                   tmVars>>

InitThrottle ==
    /\ InitAdapter(StreamDeckPlugin)
    /\ InitPage(ElementIds, [id \in InputIds |-> << >>])

NextThrottle ==
    \/ \E limit \in 0..MaxLimit : Throttle(limit)
    \/ \E args \in DebounceArgs : ThrottledCall(args)
    \/ ThrottleRelease
    \/ ThrottleTick

SpecThrottle == InitThrottle /\ [][NextThrottle]_vars

\* C23: func is invoked at most once per limit ms: the first call invokes it at
\* once, with the call's arguments; a call made less than limit ms after the
\* last invocation is dropped, and nothing invokes func for it later (func runs
\* only within a call); a call made after more than limit ms invokes func again.
C23_AtMostOncePerLimit ==
    [][ /\ step'.op = "throttledCall" =>
              LET invokedNow == step'.calls # << >>
              IN  /\ ~throttled.invoked => invokedNow
                  /\ (throttled.invoked /\ throttled.sinceInvoked < throttled.limit) =>
                        ~invokedNow
                  /\ (throttled.invoked /\ throttled.sinceInvoked > throttled.limit) =>
                        invokedNow
                  /\ invokedNow =>
                        step'.calls = << Call("func", [args |-> step'.frame.args]) >>
        /\ step'.op \in {"release", "tick"} => step'.calls = << >> ]_vars

\* a call made 1 ms after the invocation, with the limit at 2 ms, was dropped
C23_Witness ==
    /\ throttled.limit = 2
    /\ throttled.sinceInvoked = 1
    /\ throttled.inThrottle
    /\ step.op = "throttledCall"
    /\ step.calls = << >>


(***************************************************************************)
(* The action's settings section: initializeUI() runs in onDocumentReady   *)
(* only, connectElgatoStreamDeckSocket sets this.actionInfo.               *)
(***************************************************************************)
\* the actions the host connects an inspector for: the three with a section, and
\* one without
SectionActions ==
    { "com.twitchmod.streamdeck.shieldmode", "com.twitchmod.streamdeck.followersonly",
      "com.twitchmod.streamdeck.slowmode", "com.twitchmod.streamdeck.clearchat" }

\* the pages: each section present or not, the rest present
SectionPages == { ElementIds \ absent : absent \in SUBSET SectionIds }

InitSection ==
    /\ InitAdapter(TwitchModPropertyInspector)
    /\ \E page \in SectionPages : InitPage(page, [id \in InputIds |-> << >>])

NextSection ==
    \/ \E u \in UUIDs, a \in SectionActions : Connect(u, RegisterEventOf(cls), a)
    \/ SocketOpen
    \/ SocketClose
    \/ OnDocumentReady

SpecSection == InitSection /\ [][NextSection]_vars

Displayed(id) == id \in DOMAIN sections /\ sections[id] = "block"

\* C31: at most one of the sections shieldSettings, followerSettings and
\* slowSettings is displayed at any time, and once onDocumentReady and
\* connectElgatoStreamDeckSocket have both run, in either order, the section of
\* the connected action is displayed.
C31_SectionOfActionDisplayed ==
    IsTM =>
        /\ \A a, b \in SectionIds : (Displayed(a) /\ Displayed(b)) => a = b
        /\ (ready /\ websocket # Null /\ SectionOf(actionInfo) \in DOMAIN sections) =>
               Displayed(SectionOf(actionInfo))


(***************************************************************************)
(* build.js: build() up to generateIcons().  A path is the sequence of its  *)
(* parts, the file name split into name, '@2x' and extension.  The disk the *)
(* script finds holds any of the directories (a directory with its parent)  *)
(* and the icon files an earlier run wrote before it ended or was stopped.  *)
(***************************************************************************)
PLUGIN_DIR == "com.twitchmod.streamdeck.sdPlugin"

\* createDirectoryStructure(): directories, in order
Directories ==
    << << PLUGIN_DIR >>,
       << PLUGIN_DIR, "plugin" >>,
       << PLUGIN_DIR, "plugin", "libs" >>,
       << PLUGIN_DIR, "plugin", "libs", "js" >>,
       << PLUGIN_DIR, "pi" >>,
       << PLUGIN_DIR, "pi", "css" >>,
       << PLUGIN_DIR, "pi", "js" >>,
       << PLUGIN_DIR, "icons" >> >>

\* generateIcons(): Object.keys(iconSizes), in insertion order, and iconSizes
IconNames ==
    << "plugin", "category", "shield", "subscribers", "followers", "emotes", "slow",
       "automod", "shoutout", "rewards" >>
IconSizes ==
    [plugin |-> << 20, 40 >>, category |-> << 28, 56 >>,
     shield |-> << 20, 40, 72, 144 >>, subscribers |-> << 20, 40, 72, 144 >>,
     followers |-> << 20, 40, 72, 144 >>, emotes |-> << 20, 40, 72, 144 >>,
     slow |-> << 20, 40, 72, 144 >>, automod |-> << 20, 40, 72, 144 >>,
     shoutout |-> << 20, 40, 72, 144 >>, rewards |-> << 20, 40, 72, 144 >>]

\* index > 0 && size === iconSizes[iconName][index-1] * 2, index counted from 0
\* (a variant that takes every later size, to test the properties against)
IsRetina_everyLater(sizes, index) == index > 0
IsRetina(sizes, index) == index > 0 /\ sizes[index + 1] = sizes[index] * 2

\* `${iconName}@2x.png` or `${iconName}.png`
Filename(iconName, isRetina) ==
    IF isRetina THEN << iconName, "@2x", ".png" >> ELSE << iconName, ".png" >>

\* path.join(PLUGIN_DIR, 'icons', filename)
IconPath(filename) == << PLUGIN_DIR, "icons" >> \o filename

\* String.prototype.replace(from, to): the first occurrence only
ReplaceFirst(path, from, to) ==
    IF \E i \in 1..Len(path) : path[i] = from
    THEN LET first == CHOOSE i \in 1..Len(path) :
                         path[i] = from /\ \A j \in 1..(i - 1) : path[j] # from
         IN  [path EXCEPT ![first] = to]
    ELSE path

\* fs.writeFileSync(iconPath.replace('.png', '.svg'), svg), of the svg by its size
WriteIcon(files, n, index) ==
    LET iconName == IconNames[n]
        sizes == IconSizes[iconName]
        iconPath == IconPath(Filename(iconName, IsRetina(sizes, index)))
    IN  (ReplaceFirst(iconPath, ".png", ".svg") :> sizes[index + 1]) @@ files

\* the two forEach loops: the position after (n, index)
AfterPosition(n, index) ==
    IF index + 1 < Len(IconSizes[IconNames[n]])
    THEN [name |-> n, index |-> index + 1]
    ELSE [name |-> n + 1, index |-> 0]

\* the files on disk after the first k writes of a run
RECURSIVE Written(_, _, _, _)
Written(files, n, index, k) ==
    IF k = 0 \/ n > Len(IconNames) THEN files
    ELSE Written(WriteIcon(files, n, index), AfterPosition(n, index).name,
                 AfterPosition(n, index).index, k - 1)

\* the directories a disk can hold
Disks ==
    { d \in SUBSET { Directories[i] : i \in 1..Len(Directories) } :
        \A dir \in d : Len(dir) > 1 => SubSeq(dir, 1, Len(dir) - 1) \in d }

\* the writes of a whole run
Writes ==
    Cardinality(UNION { { << n, i >> : i \in 1..Len(IconSizes[IconNames[n]]) } :
                            n \in 1..Len(IconNames) })

\* build(): createDirectoryStructure() over the disk found, which holds the
\* directories of existing and the first k icon files of an earlier run
Build(existing, k) ==
    /\ build.pc = "idle"
    /\ k > 0 => << PLUGIN_DIR, "icons" >> \in existing
    /\ build' = [pc |-> "icons",
                 dirs |-> existing \cup { Directories[i] : i \in 1..Len(Directories) },
                 files |-> Written(<< >>, 1, 0, k), name |-> 1, index |-> 0]
    /\ step' = Step("build", [existing |-> existing, k |-> k], << >>,
                    SelectSeq(Directories, LAMBDA dir : dir \notin existing), NoError)
    /\ UNCHANGED <<clock, limiter, retry, debounced, throttled, hostGlobal, connVars,
                   tmVars>>

\* generateIcons(): one call of the inner forEach's callback
GenerateIcon ==
    /\ build.pc = "icons"
    /\ LET after == AfterPosition(build.name, build.index)
       IN  IF << PLUGIN_DIR, "icons" >> \in build.dirs
           THEN /\ build' =
                      [build EXCEPT
                          !.files = WriteIcon(build.files, build.name, build.index),
                          !.name = after.name,
                          !.index = after.index,
                          !.pc = IF after.name > Len(IconNames) THEN "done" ELSE "icons"]
                /\ step' = Step("generateIcon",
                                [iconName |-> IconNames[build.name], index |-> build.index],
                                << >>,
                                << Filename(IconNames[build.name],
                                            IsRetina(IconSizes[IconNames[build.name]],
                                                     build.index)) >>,
                                NoError)
           ELSE /\ build' = [build EXCEPT !.pc = "failed"]
                /\ step' = Step("generateIcon",
                                [iconName |-> IconNames[build.name], index |-> build.index],
                                << >>, << >>, "ENOENT")
    /\ UNCHANGED <<clock, limiter, retry, debounced, throttled, hostGlobal, connVars,
                   tmVars>>

InitBuild ==
    /\ InitAdapter(StreamDeckPlugin)
    /\ InitPage(ElementIds, [id \in InputIds |-> << >>])

NextBuild ==
    \/ \E existing \in Disks, k \in 0..Writes : Build(existing, k)
    \/ GenerateIcon

SpecBuild == InitBuild /\ [][NextBuild]_vars

\* the icon files of a name on disk
IconFilesOf(iconName) ==
    { path \in DOMAIN build.files : path[1] = PLUGIN_DIR /\ path[2] = "icons"
                                     /\ path[3] = iconName }

\* generateIcons has processed every size of the n-th name
Processed(n) == build.pc = "done" \/ (build.pc = "icons" /\ build.name > n)

\* C35: once generateIcons has processed all sizes of an icon name, in list
\* order, exactly two icon files exist for the name, <name>.svg and
\* <name>@2x.svg, and the size written in <name>@2x.svg is twice the size
\* written in <name>.svg.
C35_TwoIconsOfEachName ==
    \A n \in 1..Len(IconNames) :
        Processed(n) =>
            LET base == << PLUGIN_DIR, "icons", IconNames[n], ".svg" >>
                retina == << PLUGIN_DIR, "icons", IconNames[n], "@2x", ".svg" >>
            IN  /\ IconFilesOf(IconNames[n]) = {base, retina}
                /\ build.files[retina] = 2 * build.files[base]

\* the four sizes of shield are processed over a fresh disk: shield.svg holds
\* the 72 that overwrote the 20, shield@2x.svg the 144 that overwrote the 40
C35_Witness ==
    /\ build.pc = "icons"
    /\ build.name = 4
    /\ build.index = 0
    /\ step.op = "generateIcon"
    /\ step.frame = [iconName |-> "shield", index |-> 3]
    /\ Cardinality(DOMAIN build.files) = 6
    /\ build.files[<< PLUGIN_DIR, "icons", "shield", ".svg" >>] = 72
    /\ build.files[<< PLUGIN_DIR, "icons", "shield", "@2x", ".svg" >>] = 144

====
